---- MODULE Spec2Model ----
(***************************************************************************)
(* Chip-identification and performance report engine (report.c).           *)
(*                                                                         *)
(* report_generate_csv() loads the chip catalogue (datasheet.csv), reads   *)
(* the JEDEC id and the SPI clock of the flash, aggregates RESULTS.CSV    *)
(* into per-(operation, size group) statistics, matches them against the   *)
(* catalogue and writes report.csv.  The model follows that pipeline, one  *)
(* action per stage.                                                       *)
(*                                                                         *)
(* Numbers.  A C float is modelled in fixed point: the integer v stands    *)
(* for the float v/1000 (807 is 0.807 ms, 3906 is 3.906 MB/s); a division  *)
(* rounds down to the next thousandth.  Three floats of the source lie     *)
(* outside that range and have codes of their own, chosen so that the      *)
(* integer order of the codes is the order of the floats:                  *)
(*   NaN         the C NAN (only ever tested, never ordered),              *)
(*   Float1e9    the float 1e9f that the closest-row searches start from,  *)
(*   BigF        the float 2e9f, a catalogue timing beyond 1e9 ms.         *)
(* In float32 2e9f - x = 2e9f for every x below 64, which is what FAbsDiff *)
(* returns.                                                                *)
(***************************************************************************)
EXTENDS Integers, Sequences, FiniteSets, TLC

VARIABLES
  env,            \* the SD card and the flash as the call finds them (never changes)
  pc,             \* position inside report_generate_csv
  rows,           \* db_row_t rows[n_rows], loaded from datasheet.csv
  jedec_norm6,    \* normalised JEDEC of the flash, "" when unknown
  match_idx,      \* index (1-based) of match_row in rows, 0 for NULL
  capacity_bytes, \* capacity of the matched row, 0 when unknown
  A,              \* agg_t: the aggregates of RESULTS.CSV
  wr,             \* what write_report_csv computed before writing (its locals)
  rf,             \* report.csv on the card: the buffers f_write accepted, in order
  console,        \* what was printed
  ret,            \* what the caller of report_generate_csv gets back
  calc,           \* a call of the statistics primitives on their own: arguments, position, results
  menu            \* show_sd_menu_and_handle: its position and the calls it has made

vars == <<env, pc, rows, jedec_norm6, match_idx, capacity_bytes, A, wr, rf, console, ret, calc, menu>>

----------------------------------------------------------------------------
(* Program constants *)

MAX_DB_ROWS == 512
PAGE_SIZE_BYTES == 256
G_COUNT == 6
G_1B == 0
G_256B == 1
G_4K == 2
G_32K == 3
G_64K == 4
G_WHOLE == 5
NA_STR == "NA"

Groups == 0 .. (G_COUNT - 1)

GROUP_BYTES == [g \in Groups |->
  CASE g = G_1B   -> 1
    [] g = G_256B -> 256
    [] g = G_4K   -> 4096
    [] g = G_32K  -> 32768
    [] g = G_64K  -> 65536
    [] OTHER      -> 0]

group_suffix(g) ==
  CASE g = G_1B    -> "1B"
    [] g = G_256B  -> "256B"
    [] g = G_4K    -> "4096B"
    [] g = G_32K   -> "32768B"
    [] g = G_64K   -> "65536B"
    [] g = G_WHOLE -> "WHOLE"
    [] OTHER       -> "?"

\* The optional gates.  The definitions in report.c are weak and return 1; a
\* build may link other definitions, so what a gate returns is an input
\* (env.gates).  No statement of report.c calls a gate.
report_enable_erase == env.gates.erase
report_enable_prog == env.gates.prog
report_enable_read == env.gates.read

----------------------------------------------------------------------------
(* Floats *)

NaN == -2000000000
Float1e9 == 2000000000
BigF == 2100000000
ABSENT_F == -1000

IsNaN(v) == v = NaN
Gt0(v) == v # NaN /\ v > 0

Abs(x) == IF x < 0 THEN -x ELSE x
Min2(a, b) == IF a < b THEN a ELSE b

\* fabsf(a - b)
FAbsDiff(a, b) ==
  IF a = BigF \/ b = BigF
    THEN (IF a = b THEN 0 ELSE BigF)
    ELSE Abs(a - b)

----------------------------------------------------------------------------
(* Text: snprintf formats and the small string utilities *)

Pad2(k) == IF k < 10 THEN "0" \o ToString(k) ELSE ToString(k)
Pad3(k) == IF k < 10 THEN "00" \o ToString(k)
           ELSE IF k < 100 THEN "0" \o ToString(k) ELSE ToString(k)

\* "%.3f" and "%.6f" of the float v/1000, "%.2f" rounded to the hundredth
Fmt3(v) == IF v = BigF THEN "2000000000.000"
           ELSE (IF v < 0 THEN "-" ELSE "") \o ToString(Abs(v) \div 1000) \o "." \o Pad3(Abs(v) % 1000)
Fmt6(v) == Fmt3(v) \o "000"
Fmt2(v) == LET w == (Abs(v) + 5) \div 10
           IN (IF v < 0 THEN "-" ELSE "") \o ToString(w \div 100) \o "." \o Pad2(w % 100)

f3_or_na(v) == IF IsNaN(v) THEN NA_STR ELSE Fmt3(v)
f2_or_na(v) == IF IsNaN(v) THEN NA_STR ELSE Fmt2(v)
i_or_na(v) == IF v <= 0 THEN NA_STR ELSE ToString(v)

\* six decimals for 0 < |v| < 0.001: no thousandth lies in that interval
f_auto_std_or_na(v) ==
  IF IsNaN(v) THEN NA_STR
  ELSE IF Abs(v) > 0 /\ Abs(v) < 1 THEN Fmt6(v) ELSE Fmt3(v)

Char(s, i) == SubSeq(s, i, i)

IsXDigit(c) == c \in {"0", "1", "2", "3", "4", "5", "6", "7", "8", "9",
                      "a", "b", "c", "d", "e", "f", "A", "B", "C", "D", "E", "F"}

ToUpper(c) ==
  CASE c = "a" -> "A" [] c = "b" -> "B" [] c = "c" -> "C"
    [] c = "d" -> "D" [] c = "e" -> "E" [] c = "f" -> "F"
    [] OTHER -> c

RECURSIVE nj_scan(_, _, _)
nj_scan(in, i, tmp) ==
  IF i > Len(in) \/ Len(tmp) >= 6 THEN tmp
  ELSE LET c == Char(in, i)
       IN IF c = "x" \/ c = "X" THEN nj_scan(in, i + 1, tmp)
          ELSE IF IsXDigit(c) THEN nj_scan(in, i + 1, tmp \o ToUpper(c))
          ELSE nj_scan(in, i + 1, tmp)

normalize_jedec(in) ==
  LET tmp == nj_scan(in, 1, "")
  IN IF Len(tmp) = 6 THEN tmp ELSE ""

----------------------------------------------------------------------------
(* Lines and fields.  A line of a file is the text between two newlines.   *)

MAX_LINE == 512

\* the character at position i, "" past the end (the terminating NUL)
At(s, i) == IF i >= 1 /\ i <= Len(s) THEN SubSeq(s, i, i) ELSE ""

\* fatfs_gets keeps the first len - 1 characters of a line and reads on to its newline
fatfs_gets(line, len) == SubSeq(line, 1, Min2(Len(line), len - 1))

IsTrailing(c) == c \in {"\r", "\n", " ", "\t"}
IsBlank(c) == c \in {" ", "\t"}

trim(s) ==
  LET n == IF \A k \in 1 .. Len(s) : IsTrailing(Char(s, k)) THEN 0
           ELSE CHOOSE k \in 1 .. Len(s) :
                  ~IsTrailing(Char(s, k)) /\ \A m \in (k + 1) .. Len(s) : IsTrailing(Char(s, m))
      i == IF n = 0 THEN 1
           ELSE CHOOSE k \in 1 .. n : ~IsBlank(Char(s, k)) /\ \A m \in 1 .. (k - 1) : IsBlank(Char(s, m))
  IN SubSeq(s, i, n)

\* strtok(s, sep) repeated to the end of s, from position i: the maximal runs
\* of characters other than the separator; an empty run is no token
RECURSIVE strtok_by(_, _, _)
strtok_by(s, sep, i) ==
  IF \A k \in i .. Len(s) : Char(s, k) = sep THEN <<>>
  ELSE LET p == CHOOSE k \in i .. Len(s) : Char(s, k) # sep /\ \A m \in i .. (k - 1) : Char(s, m) = sep
           e == CHOOSE k \in p .. Len(s) : (k = Len(s) \/ Char(s, k + 1) = sep)
                                           /\ \A m \in p .. k : Char(s, m) # sep
       IN <<SubSeq(s, p, e)>> \o strtok_by(s, sep, e + 2)

\* the first max tokens
FirstTokens(toks, max) == SubSeq(toks, 1, Min2(Len(toks), max))

\* the texts of flds with sep between them
RECURSIVE JoinWith(_, _)
JoinWith(flds, sep) ==
  IF flds = <<>> THEN ""
  ELSE IF Len(flds) = 1 THEN flds[1]
  ELSE flds[1] \o sep \o JoinWith(Tail(flds), sep)

IsSpace(c) == c \in {" ", "\t", "\n", "\r"}
IsDigit(c) == c \in {"0", "1", "2", "3", "4", "5", "6", "7", "8", "9"}
DigitVal(c) == CHOOSE d \in 0 .. 9 : ToString(d) = c

\* the first position from i that holds no white space
SkipSpace(s, i) ==
  CHOOSE k \in i .. (Len(s) + 1) : ~IsSpace(At(s, k)) /\ \A m \in i .. (k - 1) : IsSpace(At(s, m))

\* the last position of the run of digits that starts at i, i - 1 when there is none
DigitsEnd(s, i) ==
  CHOOSE e \in (i - 1) .. Len(s) : ~IsDigit(At(s, e + 1)) /\ \A m \in i .. e : IsDigit(At(s, m))

LONG_MAX == 2147483647

\* the value of the digits s[i .. e], LONG_MAX once it is out of range
RECURSIVE DecVal(_, _, _, _)
DecVal(s, i, e, acc) ==
  IF i > e THEN acc
  ELSE LET d == DigitVal(Char(s, i))
       IN IF acc > 214748364 \/ (acc = 214748364 /\ d > 7) THEN LONG_MAX
          ELSE DecVal(s, i + 1, e, acc * 10 + d)

\* strtol(s, &end, 10): white space, a sign, decimal digits; end == s without digits
parse_int_or(s, fallback) ==
  IF s = "" THEN fallback
  ELSE LET p == SkipSpace(s, 1)
           q == IF At(s, p) \in {"+", "-"} THEN p + 1 ELSE p
           e == DigitsEnd(s, q)
       IN IF e < q THEN fallback
          ELSE IF At(s, p) = "-" THEN 0 - DecVal(s, q, e, 0) ELSE DecVal(s, q, e, 0)

\* strtof(s, &end) for decimal text: white space, a sign, digits, a point and
\* digits.  The result is the number in units of 1/scale, digits below the
\* unit dropped; end == s when neither part has a digit.
parse_float_or(s, fallback, scale) ==
  IF s = "" THEN fallback
  ELSE LET p == SkipSpace(s, 1)
           q == IF At(s, p) \in {"+", "-"} THEN p + 1 ELSE p
           e == DigitsEnd(s, q)
           f == IF At(s, e + 1) = "." THEN DigitsEnd(s, e + 2) ELSE e
           whole == DecVal(s, q, e, 0)
           frac == IF scale = 1 THEN 0
                   ELSE DecVal(SubSeq(s, e + 2, Min2(f, e + 4)) \o "000", 1, 3, 0)
           v == IF whole > LONG_MAX \div scale - 1 THEN BigF ELSE whole * scale + frac
       IN IF e < q /\ f < e + 2 THEN fallback
          ELSE IF At(s, p) = "-" THEN 0 - v ELSE v

----------------------------------------------------------------------------
(* Statistics *)

RECURSIVE SumSeq(_)
SumSeq(s) == IF s = <<>> THEN 0 ELSE Head(s) + SumSeq(Tail(s))

\* The last place of a float: finer than a thousandth below 2^20, 0.125 from
\* 2^20 and 0.25 from 2^21 on.  f32 is the nearest float, ties to even, where
\* the floats are coarser than the thousandths.
Ulp(v) == IF Abs(v) < 1048576000 THEN 1 ELSE IF Abs(v) < 2097152000 THEN 125 ELSE 250

f32(v) ==
  LET u == Ulp(v)
      q == Abs(v) \div u
      r == Abs(v) % u
      m == IF 2 * r < u THEN q
           ELSE IF 2 * r > u THEN q + 1
           ELSE IF q % 2 = 0 THEN q ELSE q + 1
  IN IF v < 0 THEN 0 - m * u ELSE m * u

\* float sum = 0.0f; sum += v for every element in order, from element i on
RECURSIVE float_sum(_, _, _)
float_sum(src, i, sum) ==
  IF i > Len(src) THEN sum ELSE float_sum(src, i + 1, f32(sum + src[i]))

\* floor(a * t / 100) for 0 <= t <= 100 without the product a * t
MulDiv100(a, t) == (a \div 100) * t + ((a % 100) * t) \div 100

RECURSIVE MinSeq(_)
MinSeq(s) == IF Len(s) = 1 THEN s[1] ELSE Min2(s[1], MinSeq(Tail(s)))

RECURSIVE MaxSeq(_)
MaxSeq(s) == IF Len(s) = 1 THEN s[1]
             ELSE LET m == MaxSeq(Tail(s)) IN IF s[1] > m THEN s[1] ELSE m

RECURSIVE InsertAsc(_, _)
InsertAsc(x, s) ==
  IF s = <<>> THEN <<x>>
  ELSE IF x < Head(s) THEN <<x>> \o s   \* cmp_float_asc
  ELSE <<Head(s)>> \o InsertAsc(x, Tail(s))

RECURSIVE safe_copy_sort(_)
safe_copy_sort(src) ==
  IF src = <<>> THEN <<>> ELSE InsertAsc(Head(src), safe_copy_sort(Tail(src)))

\* sqrtf: the largest s with s*s <= x, searched between lo and hi
RECURSIVE SqrtBetween(_, _, _)
SqrtBetween(x, lo, hi) ==
  IF lo >= hi THEN lo
  ELSE LET mid == (lo + hi + 1) \div 2
       IN IF mid * mid <= x THEN SqrtBetween(x, mid, hi) ELSE SqrtBetween(x, lo, mid - 1)

sqrtf(x) == SqrtBetween(x, 0, 46340)

\* a percentile that takes the lower neighbour without interpolating
percentile_sorted_lower(v, q) ==
  LET n == Len(v)
  IN IF n <= 0 THEN NaN
     ELSE IF q <= 0 THEN v[1]
     ELSE IF q >= 100 THEN v[n]
     ELSE v[(q * (n - 1)) \div 100 + 1]

\* q is given in hundredths (25 for 0.25f); v is sorted ascending, 1-based
percentile_sorted(v, q) ==
  LET n == Len(v)
  IN IF n <= 0 THEN NaN
     ELSE IF q <= 0 THEN v[1]
     ELSE IF q >= 100 THEN v[n]
     ELSE LET pos100 == q * (n - 1)
              i == pos100 \div 100
              j == (pos100 + 99) \div 100
              t == pos100 - 100 * i
          IN v[i + 1] + MulDiv100(v[j + 1] - v[i + 1], t)

\* var += d * d over the elements, d = src[i] - mean taken in units of u thousandths
RECURSIVE SumSqDev(_, _, _)
SumSqDev(s, mean, u) ==
  IF s = <<>> THEN 0
  ELSE LET d == Abs(Head(s) - mean) \div u
       IN d * d + SumSqDev(Tail(s), mean, u)

\* the unit that keeps the squares of the deviations within the integers
DevUnit(src, mean) ==
  Abs(IF MaxSeq(src) - mean > mean - MinSeq(src) THEN MaxSeq(src) - mean
      ELSE mean - MinSeq(src)) \div 20000 + 1

calc_stats_from_vec(src) ==
  LET n == Len(src)
  IN IF n <= 0
       THEN [n |-> n, mean |-> NaN, p25 |-> NaN, p50 |-> NaN, p75 |-> NaN,
             minv |-> NaN, maxv |-> NaN, stddev |-> NaN]
       ELSE LET mean == f32(float_sum(src, 1, 0) \div n)
                sorted == safe_copy_sort(src)
                u == DevUnit(src, mean)
            IN [n |-> n, mean |-> mean,
                p25 |-> percentile_sorted(sorted, 25),
                p50 |-> percentile_sorted(sorted, 50),
                p75 |-> percentile_sorted(sorted, 75),
                minv |-> MinSeq(src), maxv |-> MaxSeq(src),
                stddev |-> u * sqrtf(SumSqDev(src, mean, u) \div n)]

\* a stats_t of memset(A, 0, sizeof *A) that nothing wrote afterwards
ZeroStats == [n |-> 0, mean |-> 0, p25 |-> 0, p50 |-> 0, p75 |-> 0,
              minv |-> 0, maxv |-> 0, stddev |-> 0]

----------------------------------------------------------------------------
(* Aggregation of RESULTS.CSV.  The file is the sequence of its lines.     *)
(* elapsed_us is a whole number of microseconds; a size of 2^31 or more    *)
(* is held as the int the cast to uint32_t started from.                   *)

\* what the loop reads of one line: nf, op = flds[1], size, elapsed_us
results_line(text) ==
  LET line == trim(fatfs_gets(text, MAX_LINE))
      flds == FirstTokens(strtok_by(line, ",", 1), 16)
      nf == Len(flds)
  IN IF nf < 6 THEN [nf |-> nf, op |-> "", size |-> 0, elapsed_us |-> -1]
     ELSE [nf |-> nf, op |-> flds[2],
           size |-> parse_int_or(flds[3], 0),
           elapsed_us |-> parse_float_or(flds[5], -1, 1)]

classify_group(bytes, whole_bytes) ==
  IF bytes = 1 THEN G_1B
  ELSE IF bytes = 256 THEN G_256B
  ELSE IF bytes = 4096 THEN G_4K
  ELSE IF bytes = 32768 THEN G_32K
  ELSE IF bytes = 65536 THEN G_64K
  ELSE IF whole_bytes # 0 /\ bytes = whole_bytes THEN G_WHOLE
  ELSE -1

\* (size / 2^20) / (elapsed_us / 1e6) in thousandths of MB/s: size * 5^9 / (2^11 * us)
MBps(size, us) ==
  IF size % 2048 = 0 THEN ((size \div 2048) * 1953125) \div us
  ELSE (size * 1953125) \div (2048 * us)

\* the line reaches the per-operation branches for group g
LineInGroup(l, g, cap) == l.nf >= 6 /\ classify_group(l.size, cap) = g

IsReadSample(l) == l.op = "read" /\ l.elapsed_us > 0 /\ l.size # 0
IsWriteSample(l) == (l.op = "program" \/ l.op = "write") /\ l.elapsed_us > 0
IsEraseSample(l) == l.op = "erase" /\ l.elapsed_us > 0

MapSeq(s, F(_)) == [i \in 1 .. Len(s) |-> F(s[i])]

\* the vectors the loop fills, in file order
read_v(lines, g, cap) ==
  MapSeq(SelectSeq(lines, LAMBDA l : LineInGroup(l, g, cap) /\ IsReadSample(l)
                                     /\ MBps(l.size, l.elapsed_us) > 0),
         LAMBDA l : MBps(l.size, l.elapsed_us))
read_us(lines, g, cap) ==
  MapSeq(SelectSeq(lines, LAMBDA l : LineInGroup(l, g, cap) /\ IsReadSample(l)),
         LAMBDA l : l.elapsed_us * 1000)
read_lat_ms(lines, g, cap) ==
  MapSeq(SelectSeq(lines, LAMBDA l : LineInGroup(l, g, cap) /\ IsReadSample(l)),
         LAMBDA l : f32(l.elapsed_us))
write_v(lines, g, cap) ==
  MapSeq(SelectSeq(lines, LAMBDA l : LineInGroup(l, g, cap) /\ IsWriteSample(l)),
         LAMBDA l : f32(l.elapsed_us))
erase_v(lines, g, cap) ==
  MapSeq(SelectSeq(lines, LAMBDA l : LineInGroup(l, g, cap) /\ IsEraseSample(l)),
         LAMBDA l : f32(l.elapsed_us))

\* flash_spi_get_baud_hz() / 1e6f
SckMHz(baud_hz) == baud_hz \div 1000

\* collect_aggregates when f_open(RESULTS.CSV) fails: A was zeroed, and only the
\* read, write and erase sections are set to the empty statistics
collect_open_failed(baud_hz) ==
  [sck_MHz      |-> SckMHz(baud_hz),
   read_s       |-> [g \in Groups |-> calc_stats_from_vec(<<>>)],
   write_s      |-> [g \in Groups |-> calc_stats_from_vec(<<>>)],
   erase_s      |-> [g \in Groups |-> calc_stats_from_vec(<<>>)],
   read_lat_ms  |-> [g \in Groups |-> ZeroStats],
   read_mean_us |-> [g \in Groups |-> 0]]

collect_pass(lines, cap, baud_hz) ==
  [sck_MHz      |-> SckMHz(baud_hz),
   read_s       |-> [g \in Groups |-> calc_stats_from_vec(read_v(lines, g, cap))],
   write_s      |-> [g \in Groups |-> calc_stats_from_vec(write_v(lines, g, cap))],
   erase_s      |-> [g \in Groups |-> calc_stats_from_vec(erase_v(lines, g, cap))],
   read_lat_ms  |-> [g \in Groups |-> calc_stats_from_vec(read_lat_ms(lines, g, cap))],
   read_mean_us |-> [g \in Groups |->
                       LET v == read_us(lines, g, cap)
                       IN IF Len(v) > 0 THEN SumSeq(v) \div Len(v) ELSE NaN]]

collect_aggregates(open_ok, file, cap, baud_hz) ==
  IF open_ok THEN collect_pass([i \in 1 .. Len(file) |-> results_line(file[i])], cap, baud_hz)
  ELSE collect_open_failed(baud_hz)

----------------------------------------------------------------------------
(* Catalogue.  datasheet.csv is the sequence of its lines; the first line  *)
(* read names the columns.  Times and speeds are held in thousandths.      *)

LOWER == "abcdefghijklmnopqrstuvwxyz"
UPPER == "ABCDEFGHIJKLMNOPQRSTUVWXYZ"

UpperOf == [c \in {Char(LOWER, k) : k \in 1 .. 26} |->
              Char(UPPER, CHOOSE k \in 1 .. 26 : Char(LOWER, k) = c)]

toupper(c) == IF c \in DOMAIN UpperOf THEN UpperOf[c] ELSE c

RECURSIVE upper_str(_)
upper_str(s) == IF s = "" THEN "" ELSE toupper(Char(s, 1)) \o upper_str(SubSeq(s, 2, Len(s)))

\* strchr(line, ',') != NULL
HasComma(line) == \E k \in 1 .. Len(line) : Char(line, k) = ","

\* the tokens of the line, split at commas when it holds one and at tabs otherwise
split_fields(line, max_fields) ==
  FirstTokens(strtok_by(line, IF HasComma(line) THEN "," ELSE "\t", 1), max_fields)

\* strncpy(dst, src, size); dst[size - 1] = 0
strncpy(src, size) == SubSeq(src, 1, Min2(Len(src), size - 1))

\* strstr(hay, needle) != NULL
strstr(hay, needle) ==
  \E k \in 1 .. (Len(hay) - Len(needle) + 1) : SubSeq(hay, k, k + Len(needle) - 1) = needle

\* the column a header name selects, by the else-if chain; "" when none
column_of(raw) ==
  LET name == upper_str(trim(strncpy(raw, 96)))
  IN IF strstr(name, "CHIP_MODEL") THEN "model"
     ELSE IF strstr(name, "COMPANY") THEN "company"
     ELSE IF strstr(name, "CHIP_FAMILY") THEN "family"
     ELSE IF strstr(name, "CAPACITY") /\ strstr(name, "MBIT") THEN "capacity"
     ELSE IF strstr(name, "JEDEC") THEN "jedec"
     ELSE IF strstr(name, "TYP_PAGE_PROGRAM") THEN "typprog"
     ELSE IF strstr(name, "TYP_4KB") THEN "typ4k"
     ELSE IF strstr(name, "TYP_32KB") THEN "typ32k"
     ELSE IF strstr(name, "TYP_64KB") THEN "typ64k"
     ELSE IF strstr(name, "50MHZ_READ_SPEED") \/ strstr(name, "50MHZ_READ") \/ strstr(name, "READ50")
       THEN "read50"
     ELSE ""

\* idx_* = -1 before the header is read
NoColumns ==
  [model |-> -1, company |-> -1, family |-> -1, capacity |-> -1, jedec |-> -1,
   typprog |-> -1, typ4k |-> -1, typ32k |-> -1, typ64k |-> -1, read50 |-> -1]

\* the loop over the header names from position i (from 0): a name that
\* selects a column sets its idx_* to i
RECURSIVE header_scan(_, _, _)
header_scan(cols, i, idx) ==
  IF i >= Len(cols) THEN idx
  ELSE LET k == column_of(cols[i + 1])
           next == IF k = "" THEN idx ELSE [idx EXCEPT ![k] = i]
       IN IF next.jedec < Len(cols) THEN header_scan(cols, i + 1, next) ELSE next

header_idx(head) == header_scan(split_fields(trim(fatfs_gets(head, MAX_LINE)), 64), 0, NoColumns)

\* the fields of a data line
db_fields(line) == split_fields(trim(fatfs_gets(line, MAX_LINE)), 64)

\* the row of a data line with fields f under the column positions idx
db_row(f, idx) ==
  LET c == Len(f)
      has(k) == idx[k] >= 0 /\ idx[k] < c
      fld(k) == f[idx[k] + 1]
  IN [jedec_norm    |-> IF has("jedec") THEN normalize_jedec(trim(strncpy(fld("jedec"), 32))) ELSE "",
      chip_model    |-> IF has("model") THEN trim(strncpy(fld("model"), 64)) ELSE "",
      company       |-> IF has("company") THEN trim(strncpy(fld("company"), 48)) ELSE "",
      family        |-> IF has("family") THEN trim(strncpy(fld("family"), 48)) ELSE "",
      capacity_mbit |-> IF has("capacity") THEN parse_int_or(fld("capacity"), -1) ELSE -1,
      typ_4k_ms     |-> IF has("typ4k") THEN parse_float_or(fld("typ4k"), ABSENT_F, 1000) ELSE ABSENT_F,
      typ_32k_ms    |-> IF has("typ32k") THEN parse_float_or(fld("typ32k"), ABSENT_F, 1000) ELSE ABSENT_F,
      typ_64k_ms    |-> IF has("typ64k") THEN parse_float_or(fld("typ64k"), ABSENT_F, 1000) ELSE ABSENT_F,
      typ_page_ms   |-> IF has("typprog") THEN parse_float_or(fld("typprog"), ABSENT_F, 1000) ELSE ABSENT_F,
      read50_MBps   |-> IF has("read50") THEN parse_float_or(fld("read50"), ABSENT_F, 1000) ELSE ABSENT_F]

\* the loop over the lines after the header, from line i on: a line with two
\* or more fields makes a row, until max_rows rows are held
RECURSIVE db_scan(_, _, _, _, _)
db_scan(dbfile, i, idx, max_rows, acc) ==
  IF i > Len(dbfile) \/ Len(acc) >= max_rows THEN acc
  ELSE LET f == db_fields(dbfile[i])
           next == IF Len(f) <= 1 THEN acc ELSE Append(acc, db_row(f, idx))
       IN IF Len(next) <= max_rows THEN db_scan(dbfile, i + 1, idx, max_rows, next) ELSE next

\* the first line read is the header, whatever it holds
load_database(open_ok, dbfile, max_rows) ==
  IF ~open_ok \/ dbfile = <<>> THEN <<>>
  ELSE db_scan(dbfile, 2, header_idx(dbfile[1]), max_rows, <<>>)

\* the first row whose JEDEC is that of the flash, 0 for NULL
RECURSIVE find_match(_, _, _)
find_match(rs, jn, i) ==
  IF jn = "" \/ i > Len(rs) THEN 0
  ELSE IF rs[i].jedec_norm # "" /\ rs[i].jedec_norm = jn THEN i
  ELSE find_match(rs, jn, i + 1)

\* (uint32_t)((capacity_mbit / 8.0f) * 1024.0f * 1024.0f)
capacity_of(rs, m) ==
  IF m # 0 /\ rs[m].capacity_mbit > 0 THEN rs[m].capacity_mbit * 131072 ELSE 0

----------------------------------------------------------------------------
(* Predictions of a catalogue row, and the closest-row search *)

read_pred(r, sck) == (r.read50_MBps * sck) \div 50000

group_bytes(g, cap) == IF g = G_WHOLE THEN cap ELSE GROUP_BYTES[g]
pages_of(bytes) == (bytes + PAGE_SIZE_BYTES - 1) \div PAGE_SIZE_BYTES
write_pred(r, g, cap) == r.typ_page_ms * pages_of(group_bytes(g, cap))

erase_ref(r, g) ==
  IF g = G_4K THEN r.typ_4k_ms
  ELSE IF g = G_32K THEN r.typ_32k_ms
  ELSE IF g = G_64K THEN r.typ_64k_ms
  ELSE NaN

\* c[i] = [has, pred]: whether row i passes the test in front of the comparison,
\* and its prediction.  b = [d, pred, i] is best_d, best_pred, best_i so far.
RECURSIVE closest_scan(_, _, _, _)
closest_scan(c, mean, i, b) ==
  IF i > Len(c) THEN b
  ELSE IF c[i].has /\ FAbsDiff(c[i].pred, mean) < b.d
    THEN closest_scan(c, mean, i + 1,
                      [d |-> FAbsDiff(c[i].pred, mean), pred |-> c[i].pred, i |-> i])
  ELSE closest_scan(c, mean, i + 1, b)

closest(c, mean) == closest_scan(c, mean, 1, [d |-> Float1e9, pred |-> NaN, i |-> 0])

read_cands(rs, sck) ==
  [i \in 1 .. Len(rs) |-> [has |-> Gt0(rs[i].read50_MBps), pred |-> read_pred(rs[i], sck)]]
write_cands(rs, g, cap) ==
  [i \in 1 .. Len(rs) |-> [has |-> Gt0(rs[i].typ_page_ms), pred |-> write_pred(rs[i], g, cap)]]
erase_cands(rs, g) ==
  [i \in 1 .. Len(rs) |-> [has |-> Gt0(erase_ref(rs[i], g)), pred |-> erase_ref(rs[i], g)]]

\* a read search that runs without looking at the clock
db_read_of_any_sck(rs, a, g) ==
  IF a.read_s[g].n > 0
    THEN closest(read_cands(rs, a.sck_MHz), a.read_s[g].mean)
    ELSE [d |-> Float1e9, pred |-> NaN, i |-> 0]

db_read_of(rs, a, g) ==
  IF a.sck_MHz > 0 /\ a.read_s[g].n > 0
    THEN closest(read_cands(rs, a.sck_MHz), a.read_s[g].mean)
    ELSE [d |-> Float1e9, pred |-> NaN, i |-> 0]

db_write_of(rs, a, g, cap) ==
  IF a.write_s[g].n > 0 /\ ~(g = G_WHOLE /\ cap = 0) /\ pages_of(group_bytes(g, cap)) # 0
    THEN closest(write_cands(rs, g, cap), a.write_s[g].mean)
    ELSE [d |-> Float1e9, pred |-> NaN, i |-> 0]

db_erase_of(rs, a, g) ==
  IF a.erase_s[g].n > 0
    THEN closest(erase_cands(rs, g), a.erase_s[g].mean)
    ELSE [d |-> Float1e9, pred |-> NaN, i |-> 0]

\* db_read / db_write / db_erase and read_winner_idx_by_group
compute_db_means_closest(rs, a, cap) ==
  [read  |-> [g \in Groups |-> db_read_of(rs, a, g).pred],
   write |-> [g \in Groups |-> db_write_of(rs, a, g, cap).pred],
   erase |-> [g \in Groups |-> db_erase_of(rs, a, g).pred],
   read_idx |-> [g \in Groups |-> db_read_of(rs, a, g).i]]

\* a comparison whose tolerance is relative to the second operand only
float_almost_equal_rel_b(a, b) ==
  IF IsNaN(a) \/ IsNaN(b) THEN FALSE
  ELSE LET diff == FAbsDiff(a, b)
       IN IF diff # BigF /\ diff * 10 < 1 THEN TRUE
          ELSE IF Abs(b) = 0 THEN FALSE
          ELSE diff < (Abs(b) + 999) \div 1000

float_almost_equal(a, b) ==
  IF IsNaN(a) \/ IsNaN(b) THEN FALSE
  ELSE LET diff == FAbsDiff(a, b)
           maxab == IF Abs(a) > Abs(b) THEN Abs(a) ELSE Abs(b)
       IN IF diff # BigF /\ diff * 10 < 1 THEN TRUE         \* diff < 1e-4f
          ELSE IF maxab = 0 THEN FALSE                      \* maxab < 1e-6f: diff < 1e-6f
          ELSE diff < (maxab + 999) \div 1000               \* diff / maxab < 1e-3f

----------------------------------------------------------------------------
(* Candidate lists: '/'-separated JEDECs in char[256] buffers *)

\* strncat(dst, src, k): at most k characters of src
strncat(dst, src, k) == dst \o SubSeq(src, 1, Min2(k, Len(src)))

append_token(dst, n, tok) ==
  IF tok = "" \/ n = 0 THEN dst
  ELSE IF Len(dst) = 0 THEN strncat(dst, tok, n - 1)
  ELSE LET d1 == IF Len(dst) + 1 < n - 1 THEN strncat(dst, "/", n - 1 - Len(dst)) ELSE dst
       IN strncat(d1, tok, n - 1 - Len(d1))

\* the loop over the rows: append the JEDEC of every row i with hit[i]
RECURSIVE append_hits(_, _, _, _)
append_hits(rs, hit, i, dst) ==
  IF i > Len(rs) THEN dst
  ELSE LET d == IF hit[i] THEN append_token(dst, 256, rs[i].jedec_norm) ELSE dst
       IN IF Len(d) < 256 THEN append_hits(rs, hit, i + 1, d) ELSE d

or_na(list) == IF list = "" THEN NA_STR ELSE list

poss_read_of(rs, a, db, g) ==
  or_na(IF ~IsNaN(db.read[g]) /\ a.sck_MHz > 0
          THEN append_hits(rs,
                 [i \in 1 .. Len(rs) |->
                    Gt0(rs[i].read50_MBps) /\ rs[i].jedec_norm # ""
                    /\ float_almost_equal(read_pred(rs[i], a.sck_MHz), db.read[g])],
                 1, "")
          ELSE "")

poss_write_of(rs, cap, db, g) ==
  or_na(IF ~IsNaN(db.write[g]) /\ ~(g = G_WHOLE /\ cap = 0) /\ group_bytes(g, cap) > 0
           /\ pages_of(group_bytes(g, cap)) > 0
          THEN append_hits(rs,
                 [i \in 1 .. Len(rs) |->
                    Gt0(rs[i].typ_page_ms) /\ rs[i].jedec_norm # ""
                    /\ float_almost_equal(write_pred(rs[i], g, cap), db.write[g])],
                 1, "")
          ELSE "")

poss_erase_of(rs, db, g) ==
  or_na(IF ~IsNaN(db.erase[g])
          THEN append_hits(rs,
                 [i \in 1 .. Len(rs) |->
                    rs[i].jedec_norm # "" /\ Gt0(erase_ref(rs[i], g))
                    /\ float_almost_equal(erase_ref(rs[i], g), db.erase[g])],
                 1, "")
          ELSE "")

build_possible_chips_for_all_groups(rs, a, cap, db) ==
  [read  |-> [g \in Groups |-> poss_read_of(rs, a, db, g)],
   write |-> [g \in Groups |-> poss_write_of(rs, cap, db, g)],
   erase |-> [g \in Groups |-> poss_erase_of(rs, db, g)]]

\* strtok(s, "/") from position i: skip the delimiters, take the run up to the next one
RECURSIVE strtok_all(_, _)
strtok_all(s, i) ==
  IF \A k \in i .. Len(s) : Char(s, k) = "/" THEN <<>>
  ELSE LET p == CHOOSE k \in i .. Len(s) : Char(s, k) # "/" /\ \A m \in i .. (k - 1) : Char(s, m) = "/"
           e == CHOOSE k \in p .. Len(s) : (k = Len(s) \/ Char(s, k + 1) = "/")
                                           /\ \A m \in p .. k : Char(s, m) # "/"
       IN <<SubSeq(s, p, e)>> \o strtok_all(s, e + 2)

Tokens(s) == strtok_all(s, 1)

RECURSIVE skip_spaces(_)
skip_spaces(t) == IF t # "" /\ Char(t, 1) = " " THEN skip_spaces(SubSeq(t, 2, Len(t))) ELSE t

HasCandidates(list) == list # "" /\ list # NA_STR

\* the first group with real candidates, -1 when there is none
first_group_of(poss) ==
  IF \E g \in Groups : HasCandidates(poss[g])
    THEN CHOOSE g \in Groups : HasCandidates(poss[g])
                               /\ \A h \in Groups : h < g => ~HasCandidates(poss[h])
    ELSE -1

in_all(poss, first_group, tok) ==
  \A g \in Groups : (g # first_group /\ HasCandidates(poss[g])) => strstr(poss[g], tok)

RECURSIVE conclude_scan(_, _, _, _, _, _)
conclude_scan(poss, first_group, toks, i, out, cap) ==
  IF i > Len(toks) THEN out
  ELSE LET tok == skip_spaces(toks[i])
           o   == IF tok # "" /\ in_all(poss, first_group, tok)
                    THEN append_token(out, cap, tok) ELSE out
       IN IF Len(o) < cap THEN conclude_scan(poss, first_group, toks, i + 1, o, cap) ELSE o

conclude_possible_chips_across_groups(poss, cap) ==
  LET first_group == first_group_of(poss)
  IN IF first_group < 0 THEN NA_STR
     ELSE or_na(conclude_scan(poss, first_group,
                              Tokens(SubSeq(poss[first_group], 1, Min2(255, Len(poss[first_group])))),
                              1, "", cap))

----------------------------------------------------------------------------
(* Final guess *)

\* floor(1000 * r / ref) for 0 <= r < ref, one decimal digit at a time
Frac3(r, ref) ==
  LET a  == (r * 10) \div ref
      ra == (r * 10) % ref
      b  == (ra * 10) \div ref
      rb == (ra * 10) % ref
      c  == (rb * 10) \div ref
  IN a * 100 + b * 10 + c

norm_diff(meas, ref) ==
  IF ~Gt0(meas) \/ ~Gt0(ref) THEN 3000
  ELSE LET diff == FAbsDiff(meas, ref)
       IN IF ref = BigF THEN 1000                      \* 2e9f / 2e9f
          ELSE IF diff \div ref >= 3 THEN 3000         \* capped
          ELSE (diff \div ref) * 1000 + Frac3(diff % ref, ref)

\* the terms one row adds to score, in the order of the three loops
score_terms(r, a, cap) ==
  LET rd == [g \in Groups |->
               IF Gt0(r.read50_MBps) /\ a.sck_MHz > 0 /\ a.read_s[g].n > 0
                 THEN <<norm_diff(a.read_s[g].mean, read_pred(r, a.sck_MHz))>> ELSE <<>>]
      wt == [g \in Groups |->
               IF Gt0(r.typ_page_ms) /\ a.write_s[g].n > 0 /\ ~(g = G_WHOLE /\ cap = 0)
                  /\ pages_of(group_bytes(g, cap)) # 0
                 THEN <<norm_diff(a.write_s[g].mean, write_pred(r, g, cap))>> ELSE <<>>]
      er == [g \in Groups |->
               IF a.erase_s[g].n > 0 /\ Gt0(erase_ref(r, g))
                 THEN <<norm_diff(a.erase_s[g].mean, erase_ref(r, g))>> ELSE <<>>]
      cat(f) == f[0] \o f[1] \o f[2] \o f[3] \o f[4] \o f[5]
  IN cat(rd) \o cat(wt) \o cat(er)

\* a scorer without the JEDEC bias
biased_never(score, r, jn) == 4 * score

\* score *= 0.25f when the row carries the JEDEC of the flash.  So that the
\* quarter is exact, the compared score is in quarters of a thousandth.
biased(score, r, jn) ==
  IF jn # "" /\ r.jedec_norm # "" /\ jn = r.jedec_norm THEN score ELSE 4 * score

RECURSIVE best_scan(_, _, _, _, _, _)
best_scan(rs, a, jn, cap, i, b) ==
  IF i > Len(rs) THEN b
  ELSE LET terms == score_terms(rs[i], a, cap)
           used  == Len(terms)
           score == biased(SumSeq(terms), rs[i], jn)
       IN IF used # 0 /\ score < b.score
            THEN best_scan(rs, a, jn, cap, i + 1, [best |-> i, score |-> score, used |-> used])
            ELSE best_scan(rs, a, jn, cap, i + 1, b)

\* best is the 1-based row index, 0 for -1; score (in thousandths) is NaN when no
\* row was scored
pick_best_candidate(rs, a, jn, cap) ==
  LET b == best_scan(rs, a, jn, cap, 1, [best |-> 0, score |-> Float1e9, used |-> 0])
  IN [best |-> b.best, score |-> IF b.best > 0 THEN b.score \div 4 ELSE NaN, used |-> b.used]

----------------------------------------------------------------------------
(* Report writer.  A report line is the buffer of one f_write call,        *)
(* without its trailing newline; the spacer is the empty line.             *)

text_or_na(t) == IF t # "" THEN t ELSE NA_STR

fill_identity_fields(rs, m, jn) ==
  LET matched == m # 0 /\ rs[m].jedec_norm # ""
      cap_ok  == matched /\ rs[m].capacity_mbit > 0
  IN [detected  |-> text_or_na(jn),
      model     |-> IF matched THEN text_or_na(rs[m].chip_model) ELSE NA_STR,
      family    |-> IF matched THEN text_or_na(rs[m].family) ELSE NA_STR,
      company   |-> IF matched THEN text_or_na(rs[m].company) ELSE NA_STR,
      cap_mbit  |-> IF cap_ok THEN ToString(rs[m].capacity_mbit) ELSE NA_STR,
      cap_bytes |-> IF cap_ok THEN ToString(rs[m].capacity_mbit * 131072) ELSE NA_STR]

\* a writer that leaves out a cell that holds NA
write_three_cols_skip_na(title, R, W, E) ==
  title \o "," \o R \o "," \o W \o (IF E = NA_STR THEN "" ELSE "," \o E)

write_three_cols(title, R, W, E) == title \o "," \o R \o "," \o W \o "," \o E
write_three_cols_i(title, Ri, Wi, Ei) ==
  write_three_cols(title, i_or_na(Ri), i_or_na(Wi), i_or_na(Ei))
write_three_cols_f(title, R, W, E) ==
  write_three_cols(title, f3_or_na(R), f3_or_na(W), f3_or_na(E))
write_three_cols_f_std(title, R, W, E) ==
  write_three_cols(title, f_auto_std_or_na(R), f_auto_std_or_na(W), f_auto_std_or_na(E))

\* a group writer that emits the average before the count
write_summary_ms_for_group_avg_first(suffix, Sr, Sw, Se) ==
  << write_three_cols_f_std("avg_" \o suffix \o "_ms", Sr.mean, Sw.mean, Se.mean),
     write_three_cols_i("n_" \o suffix, Sr.n, Sw.n, Se.n),
     write_three_cols_f_std("p25_" \o suffix \o "_ms", Sr.p25, Sw.p25, Se.p25),
     write_three_cols_f_std("p50_" \o suffix \o "_ms", Sr.p50, Sw.p50, Se.p50),
     write_three_cols_f_std("p75_" \o suffix \o "_ms", Sr.p75, Sw.p75, Se.p75),
     write_three_cols_f_std("min_" \o suffix \o "_ms", Sr.minv, Sw.minv, Se.minv),
     write_three_cols_f_std("max_" \o suffix \o "_ms", Sr.maxv, Sw.maxv, Se.maxv),
     write_three_cols_f_std("stddev_" \o suffix \o "_ms", Sr.stddev, Sw.stddev, Se.stddev) >>

\* the eight rows of one size group
write_summary_ms_for_group(suffix, Sr, Sw, Se) ==
  << write_three_cols_i("n_" \o suffix, Sr.n, Sw.n, Se.n),
     write_three_cols_f_std("avg_" \o suffix \o "_ms", Sr.mean, Sw.mean, Se.mean),
     write_three_cols_f_std("p25_" \o suffix \o "_ms", Sr.p25, Sw.p25, Se.p25),
     write_three_cols_f_std("p50_" \o suffix \o "_ms", Sr.p50, Sw.p50, Se.p50),
     write_three_cols_f_std("p75_" \o suffix \o "_ms", Sr.p75, Sw.p75, Se.p75),
     write_three_cols_f_std("min_" \o suffix \o "_ms", Sr.minv, Sw.minv, Se.minv),
     write_three_cols_f_std("max_" \o suffix \o "_ms", Sr.maxv, Sw.maxv, Se.maxv),
     write_three_cols_f_std("stddev_" \o suffix \o "_ms", Sr.stddev, Sw.stddev, Se.stddev) >>

PerGroup(F(_)) == F(0) \o F(1) \o F(2) \o F(3) \o F(4) \o F(5)

any_meas_of(a) ==
  \E g \in Groups : a.read_s[g].n > 0 \/ a.write_s[g].n > 0 \/ a.erase_s[g].n > 0

\* a final guess that leaves the model and the company of an unmatched JEDEC undecided
final_guess_undecided(rs, a, m, jn, best) ==
  LET by_jedec(score) ==
        [j |-> jn,
         m |-> IF m # 0 THEN text_or_na(rs[m].chip_model) ELSE "undecided",
         c |-> IF m # 0 THEN text_or_na(rs[m].company) ELSE "undecided",
         score |-> score]
      undecided(score) ==
        [j |-> "undecided", m |-> "undecided", c |-> "undecided", score |-> score]
  IN IF ~any_meas_of(a)
       THEN (IF jn # "" THEN by_jedec("0.000") ELSE undecided(NA_STR))
     ELSE IF best.best > 0
       THEN [j |-> text_or_na(rs[best.best].jedec_norm),
             m |-> text_or_na(rs[best.best].chip_model),
             c |-> text_or_na(rs[best.best].company),
             score |-> f3_or_na(best.score)]
     ELSE IF jn # "" THEN by_jedec(f3_or_na(best.score))
     ELSE undecided(f3_or_na(best.score))

\* a final guess that sets the score 0.000 whenever nothing was measured
final_guess_zero_score(rs, a, m, jn, best) ==
  LET by_jedec(score) ==
        [j |-> jn,
         m |-> IF m # 0 THEN text_or_na(rs[m].chip_model) ELSE NA_STR,
         c |-> IF m # 0 THEN text_or_na(rs[m].company) ELSE NA_STR,
         score |-> score]
      undecided(score) ==
        [j |-> "undecided", m |-> "undecided", c |-> "undecided", score |-> score]
  IN IF ~any_meas_of(a)
       THEN (IF jn # "" THEN by_jedec("0.000") ELSE undecided("0.000"))
     ELSE IF best.best > 0
       THEN [j |-> text_or_na(rs[best.best].jedec_norm),
             m |-> text_or_na(rs[best.best].chip_model),
             c |-> text_or_na(rs[best.best].company),
             score |-> f3_or_na(best.score)]
     ELSE IF jn # "" THEN by_jedec(f3_or_na(best.score))
     ELSE undecided(f3_or_na(best.score))

\* final_j, final_m, final_c and fscore
final_guess(rs, a, m, jn, best) ==
  LET by_jedec(score) ==
        [j |-> jn,
         m |-> IF m # 0 THEN text_or_na(rs[m].chip_model) ELSE NA_STR,
         c |-> IF m # 0 THEN text_or_na(rs[m].company) ELSE NA_STR,
         score |-> score]
      undecided(score) ==
        [j |-> "undecided", m |-> "undecided", c |-> "undecided", score |-> score]
  IN IF ~any_meas_of(a)
       THEN (IF jn # "" THEN by_jedec("0.000") ELSE undecided(NA_STR))
     ELSE IF best.best > 0
       THEN [j |-> text_or_na(rs[best.best].jedec_norm),
             m |-> text_or_na(rs[best.best].chip_model),
             c |-> text_or_na(rs[best.best].company),
             score |-> f3_or_na(best.score)]
     ELSE IF jn # "" THEN by_jedec(f3_or_na(best.score))
     ELSE undecided(f3_or_na(best.score))

NOTES_READ == "read: MB/s; db_mean_* = closest READ@SCK to measured mean per size; NA if no read data"
NOTES_WRITE == "write: ms/op; db_mean_* = typ_page_ms * ceil(bytes/256) closest to measured mean; NA if no write data"
NOTES_ERASE == "erase: ms/op; db_mean_* = typ_4K/32K/64K closest to measured mean; NA if no erase data"
REPORT_HEADER == "title,read,write,erase"
FINAL_HEADER == "final_guess_jedec,final_guess_model,final_guess_company,final_score"

\* what write_report_csv computes before it opens report.csv
report_locals(rs, a, m, jn, cap) ==
  LET db   == compute_db_means_closest(rs, a, cap)
      poss == build_possible_chips_for_all_groups(rs, a, cap, db)
      best == pick_best_candidate(rs, a, jn, cap)
  IN [ident |-> fill_identity_fields(rs, m, jn),
      db    |-> db,
      poss  |-> poss,
      best  |-> best,
      final |-> final_guess(rs, a, m, jn, best),
      concl |-> [read  |-> conclude_possible_chips_across_groups(poss.read, 1024),
                 write |-> conclude_possible_chips_across_groups(poss.write, 1024),
                 erase |-> conclude_possible_chips_across_groups(poss.erase, 1024)]]

\* a writer that emits the final guess right after the header line
report_lines_final_first(a, w) ==
  LET id  == w.ident
      sck == f2_or_na(IF a.sck_MHz > 0 THEN a.sck_MHz ELSE NaN)
  IN << REPORT_HEADER,
        FINAL_HEADER,
        w.final.j \o "," \o w.final.m \o "," \o w.final.c \o "," \o w.final.score,
        write_three_cols("detected_jedec", id.detected, id.detected, id.detected),
        write_three_cols("chip_model", id.model, id.model, id.model),
        write_three_cols("chip_family", id.family, id.family, id.family),
        write_three_cols("company", id.company, id.company, id.company),
        write_three_cols("capacity_mbit", id.cap_mbit, id.cap_mbit, id.cap_mbit),
        write_three_cols("capacity_bytes", id.cap_bytes, id.cap_bytes, id.cap_bytes),
        write_three_cols("spi_sck_MHz", sck, sck, sck),
        write_three_cols("units_summary", "ms", "ms", "ms") >>
     \o PerGroup(LAMBDA g : write_summary_ms_for_group(group_suffix(g),
                              a.read_lat_ms[g], a.write_s[g], a.erase_s[g]))
     \o PerGroup(LAMBDA g : << write_three_cols_f("db_mean_" \o group_suffix(g),
                                 w.db.read[g], w.db.write[g], w.db.erase[g]) >>)
     \o PerGroup(LAMBDA g : << write_three_cols("possible_chips_" \o group_suffix(g),
                                 w.poss.read[g], w.poss.write[g], w.poss.erase[g]) >>)
     \o << write_three_cols("conclusion_possible_chips",
                            w.concl.read, w.concl.write, w.concl.erase),
           write_three_cols("notes", NOTES_READ, NOTES_WRITE, NOTES_ERASE),
           "" >>

\* the f_write calls of write_report_csv, in order
report_lines(a, w) ==
  LET id  == w.ident
      sck == f2_or_na(IF a.sck_MHz > 0 THEN a.sck_MHz ELSE NaN)
  IN << REPORT_HEADER,
        write_three_cols("detected_jedec", id.detected, id.detected, id.detected),
        write_three_cols("chip_model", id.model, id.model, id.model),
        write_three_cols("chip_family", id.family, id.family, id.family),
        write_three_cols("company", id.company, id.company, id.company),
        write_three_cols("capacity_mbit", id.cap_mbit, id.cap_mbit, id.cap_mbit),
        write_three_cols("capacity_bytes", id.cap_bytes, id.cap_bytes, id.cap_bytes),
        write_three_cols("spi_sck_MHz", sck, sck, sck),
        write_three_cols("units_summary", "ms", "ms", "ms") >>
     \o PerGroup(LAMBDA g : write_summary_ms_for_group(group_suffix(g),
                              a.read_lat_ms[g], a.write_s[g], a.erase_s[g]))
     \o PerGroup(LAMBDA g : << write_three_cols_f("db_mean_" \o group_suffix(g),
                                 w.db.read[g], w.db.write[g], w.db.erase[g]) >>)
     \o PerGroup(LAMBDA g : << write_three_cols("possible_chips_" \o group_suffix(g),
                                 w.poss.read[g], w.poss.write[g], w.poss.erase[g]) >>)
     \o << write_three_cols("conclusion_possible_chips",
                            w.concl.read, w.concl.write, w.concl.erase),
           write_three_cols("notes", NOTES_READ, NOTES_WRITE, NOTES_ERASE),
           "",
           FINAL_HEADER,
           w.final.j \o "," \o w.final.m \o "," \o w.final.c \o "," \o w.final.score >>

\* report.csv after the calls: f_open may fail; from call fail_at on (0: never)
\* the card rejects every f_write, whose result the writer does not read
rf_after(open_ok, fail_at, lines) ==
  IF ~open_ok THEN [opened |-> FALSE, data |-> <<>>, rejected |-> 0]
  ELSE IF fail_at = 0 \/ fail_at > Len(lines)
    THEN [opened |-> TRUE, data |-> lines, rejected |-> 0]
  ELSE [opened |-> TRUE, data |-> SubSeq(lines, 1, fail_at - 1),
        rejected |-> Len(lines) - fail_at + 1]

MSG_OPEN_FAILED == "Failed to open report.csv"
MSG_WRITTEN == "report.csv written (transposed + old-style conclusion)."

----------------------------------------------------------------------------
(* The stages of report_generate_csv *)

NoStats == [g \in Groups |-> ZeroStats]
NoAgg == [sck_MHz |-> 0, read_s |-> NoStats, write_s |-> NoStats, erase_s |-> NoStats,
          read_lat_ms |-> NoStats, read_mean_us |-> [g \in Groups |-> 0]]
NoLocals == report_locals(<<>>, NoAgg, 0, "", 0)

\* the analysis menu not running
NoMenu ==
  [pc |-> "off", entered |-> FALSE, reads |-> 0, calls |-> <<>>,
   cmd |-> "", round |-> <<>>, flash |-> {}]

\* no call of the primitives on their own
NoCalc ==
  [pc |-> "off", src |-> <<>>, q |-> 0, S |-> ZeroStats, sorted |-> <<>>, pct |-> 0,
   a |-> 0, b |-> 0, eq |-> [ab |-> FALSE, ba |-> FALSE, aa |-> FALSE]]

Start(e) ==
  /\ env = e
  /\ pc = "load"
  /\ rows = <<>>
  /\ jedec_norm6 = ""
  /\ match_idx = 0
  /\ capacity_bytes = 0
  /\ A = NoAgg
  /\ wr = NoLocals
  /\ rf = [opened |-> FALSE, data |-> <<>>, rejected |-> 0]
  /\ console = <<>>
  /\ ret = "pending"
  /\ calc = NoCalc
  /\ menu = NoMenu

\* 1) Load DB
LoadDatabase ==
  /\ pc = "load"
  /\ rows' = load_database(env.db_open_ok, env.dbfile, MAX_DB_ROWS)
  /\ pc' = "detect"
  /\ UNCHANGED <<calc, menu, env, jedec_norm6, match_idx, capacity_bytes, A, wr, rf, console, ret>>

\* 2) Detect JEDEC & match DB, capacity in bytes
DetectAndMatch ==
  /\ pc = "detect"
  /\ LET jn == normalize_jedec(env.jedec_text)
         m  == find_match(rows, jn, 1)
     IN /\ jedec_norm6' = jn
        /\ match_idx' = m
        /\ capacity_bytes' = capacity_of(rows, m)
  /\ pc' = "collect"
  /\ UNCHANGED <<calc, menu, env, rows, A, wr, rf, console, ret>>

\* 3) Aggregate RESULTS.CSV
CollectAggregates ==
  /\ pc = "collect"
  /\ A' = collect_aggregates(env.res_open_ok, env.results, capacity_bytes, env.baud_hz)
  /\ pc' = "write"
  /\ UNCHANGED <<calc, menu, env, rows, jedec_norm6, match_idx, capacity_bytes, wr, rf, console, ret>>

\* 4) Emit report, and return
WriteReportCsv ==
  /\ pc = "write"
  /\ LET w == report_locals(rows, A, match_idx, jedec_norm6, capacity_bytes)
     IN /\ wr' = w
        /\ rf' = rf_after(env.rf_open_ok, env.rf_fail_at, report_lines(A, w))
  /\ console' = Append(console, IF env.rf_open_ok THEN MSG_WRITTEN ELSE MSG_OPEN_FAILED)
  /\ ret' = "void"
  /\ pc' = "done"
  /\ UNCHANGED <<calc, menu, env, rows, jedec_norm6, match_idx, capacity_bytes, A>>

Next == LoadDatabase \/ DetectAndMatch \/ CollectAggregates \/ WriteReportCsv

\* The statistics primitives called on their own, with any quantile q (in
\* hundredths): calc_stats_from_vec(src), then percentile_sorted on the sorted copy
CalcStats ==
  /\ calc.pc = "stats"
  /\ calc' = [calc EXCEPT !.S = calc_stats_from_vec(calc.src), !.pc = "percentile"]
  /\ UNCHANGED <<menu, env, pc, rows, jedec_norm6, match_idx, capacity_bytes, A, wr, rf, console, ret>>

Percentile ==
  /\ calc.pc = "percentile"
  /\ LET sorted == safe_copy_sort(calc.src)
     IN calc' = [calc EXCEPT !.sorted = sorted, !.pct = percentile_sorted(sorted, calc.q),
                             !.pc = "done"]
  /\ UNCHANGED <<menu, env, pc, rows, jedec_norm6, match_idx, capacity_bytes, A, wr, rf, console, ret>>

NextCalc == CalcStats \/ Percentile

\* float_almost_equal called on its own, on a and b in either order and on a twice
AlmostEqual ==
  /\ calc.pc = "compare"
  /\ calc' = [calc EXCEPT !.eq = [ab |-> float_almost_equal(calc.a, calc.b),
                                  ba |-> float_almost_equal(calc.b, calc.a),
                                  aa |-> float_almost_equal(calc.a, calc.a)],
                          !.pc = "compared"]
  /\ UNCHANGED <<menu, env, pc, rows, jedec_norm6, match_idx, capacity_bytes, A, wr, rf, console, ret>>

NextEqual == AlmostEqual

----------------------------------------------------------------------------
(* The analysis menu (main.c).  A step of the menu runs from one read of  *)
(* the console to the next; `reads` counts the reads.  The menu records    *)
(* every call it makes since it was entered (calls), and since the prompt  *)
(* was last shown the command chosen (cmd), the calls (round) and the      *)
(* flash primitives those calls can invoke (flash).                        *)

MaxReads == 6

normalize_cmd(cmd) ==
  IF cmd = "safe" \/ cmd = "s" THEN "safe"
  ELSE IF cmd = "destructive" \/ cmd = "d" THEN "destructive"
  ELSE IF cmd = "write" \/ cmd = "w" THEN "write"
  ELSE IF cmd = "erase" \/ cmd = "e" THEN "erase"
  ELSE IF cmd = "exit" \/ cmd = "quit" \/ cmd = "q" THEN "exit"
  ELSE cmd

\* what read_command_gap_terminated can hand back, trimmed and in lower
\* case; "" is a read that returned false
Typed == {"", "safe", "s", "destructive", "d", "write", "w", "erase", "e", "exit", "quit", "q", "help"}

\* the flash primitives that a call made by the menu can invoke
FlashOps(call) ==
  CASE call = "bench_read_run_100" ->
         {"flash_get_jedec_str", "flash_capacity_bytes", "flash_spi_get_baud_hz", "flash_read_data"}
    [] call = "bench_write_run_100" ->
         {"flash_get_jedec_str", "flash_capacity_bytes", "flash_spi_get_baud_hz",
          "flash_sector_erase", "flash_page_program"}
    [] call = "bench_erase_run_100" ->
         {"flash_get_jedec_str", "flash_capacity_bytes", "flash_spi_get_baud_hz",
          "flash_unprotect_all", "flash_page_program", "flash_erase_span"}
    [] call = "report_generate_csv" -> {"flash_get_jedec_str", "flash_spi_get_baud_hz"}

Call(m, call) ==
  [m EXCEPT !.calls = Append(@, call), !.round = Append(@, call),
            !.flash = @ \cup FlashOps(call)]

\* continue: back to the top of the loop, where the banner and the prompt are shown
back_to_menu(m) == [m EXCEPT !.pc = "prompt", !.cmd = "", !.round = <<>>, !.flash = {}]

\* a way out of the menu that returns at once
leave_menu_without_report(m) == [m EXCEPT !.pc = "returned"]

\* report_generate_csv(); return;
leave_menu(m) == [Call(m, "report_generate_csv") EXCEPT !.pc = "report"]

\* a safe analysis that also runs the write benchmark
safe_analysis_with_write(m) ==
  [Call(Call([m EXCEPT !.cmd = "safe"], "bench_read_run_100"), "bench_write_run_100")
     EXCEPT !.pc = "safe_exit"]

\* Scenario A up to its question
safe_analysis(m) == [Call([m EXCEPT !.cmd = "safe"], "bench_read_run_100") EXCEPT !.pc = "safe_exit"]

\* Scenario B up to the choice of the destructive action
destructive_analysis(m) ==
  [Call([m EXCEPT !.cmd = "destructive"], "bench_read_run_100") EXCEPT !.pc = "action"]

\* the menu moves to m; a call of report_generate_csv starts the report stages
MenuStep(m) ==
  /\ menu' = m
  /\ pc' = IF m.pc = "report" THEN "load" ELSE pc
  /\ UNCHANGED <<env, rows, jedec_norm6, match_idx, capacity_bytes, A, wr, rf, console, ret, calc>>

Read(m) == [m EXCEPT !.reads = @ + 1]

\* the check of sd_is_mounted() in front of the loop
MenuEnter ==
  /\ menu.pc = "entry"
  /\ MenuStep(IF env.sd_mounted THEN [back_to_menu(menu) EXCEPT !.entered = TRUE]
              ELSE [menu EXCEPT !.pc = "returned"])

\* the prompt of the loop: one command
TopCommand ==
  /\ menu.pc = "prompt" /\ menu.reads < MaxReads
  /\ \E raw \in Typed :
       LET cmd == normalize_cmd(raw)
           m == Read(menu)
       IN MenuStep(IF raw = "" THEN back_to_menu(m)
                   ELSE IF cmd = "safe" THEN safe_analysis(m)
                   ELSE IF cmd = "destructive" THEN destructive_analysis(m)
                   ELSE IF cmd = "exit" THEN leave_menu([m EXCEPT !.cmd = "exit"])
                   ELSE back_to_menu(m))

\* "Do you want to exit?" after the safe analysis, and after the second
\* destructive step
AskExit ==
  /\ menu.pc \in {"safe_exit", "destructive_exit"} /\ menu.reads < MaxReads
  /\ \E yes \in BOOLEAN :
       MenuStep(IF yes THEN leave_menu(Read(menu)) ELSE back_to_menu(Read(menu)))

\* "Choose destructive action (write / erase)", asked until one is typed
ChooseAction ==
  /\ menu.pc = "action" /\ menu.reads < MaxReads
  /\ \E raw \in Typed :
       LET a == normalize_cmd(raw)
           m == Read(menu)
       IN MenuStep(IF a = "write" THEN [Call(m, "bench_write_run_100") EXCEPT !.pc = "erase_next"]
                   ELSE IF a = "erase" THEN [Call(m, "bench_erase_run_100") EXCEPT !.pc = "write_next"]
                   ELSE m)

\* "Do you want to ERASE data next?" after the write benchmark
AskEraseNext ==
  /\ menu.pc = "erase_next" /\ menu.reads < MaxReads
  /\ \E yes \in BOOLEAN :
       MenuStep(IF yes THEN [Call(Read(menu), "bench_erase_run_100") EXCEPT !.pc = "destructive_exit"]
                ELSE leave_menu(Read(menu)))

\* "Do you want to WRITE data next?" after the erase benchmark
AskWriteNext ==
  /\ menu.pc = "write_next" /\ menu.reads < MaxReads
  /\ \E yes \in BOOLEAN :
       MenuStep(IF yes THEN [Call(Read(menu), "bench_write_run_100") EXCEPT !.pc = "destructive_exit"]
                ELSE leave_menu(Read(menu)))

\* report_generate_csv has returned: the menu returns
MenuReturn ==
  /\ menu.pc = "report" /\ pc = "done"
  /\ MenuStep([menu EXCEPT !.pc = "returned"])

NextMenu ==
  \/ MenuEnter \/ TopCommand \/ AskExit \/ ChooseAction \/ AskEraseNext \/ AskWriteNext
  \/ MenuReturn
  \/ LoadDatabase \/ DetectAndMatch \/ CollectAggregates \/ WriteReportCsv

----------------------------------------------------------------------------
(* Inputs.  Every specification runs the same stages; they differ in the   *)
(* cards and flashes they start from.                                      *)

MaxRows == 2
MaxSamples == 2
WideMin == 35
WideMax == 39

SeqsUpTo(S, n) == UNION {[1 .. k -> S] : k \in 0 .. n}
Range(s) == {s[i] : i \in 1 .. Len(s)}

\* the header of the catalogues below, and a data line under it: a text that
\* is empty and a number that is absent are written as one space
DB_HEADER ==
  "JEDEC_ID,CHIP_MODEL,COMPANY,CHIP_FAMILY,CAPACITY_MBIT,TYP_4KB_MS,TYP_32KB_MS,TYP_64KB_MS,TYP_PAGE_PROGRAM_MS,50MHZ_READ_SPEED"

TextOr(t) == IF t = "" THEN " " ELSE t
IntOr(v) == IF v < 0 THEN " " ELSE ToString(v)
MilliOr(v) == IF v = BigF THEN "2000000000" ELSE IF v < 0 THEN " " ELSE Fmt3(v)

Row(j, model, company, family, mbit, t4k, t32k, t64k, tpage, r50) ==
  JoinWith(<<j, TextOr(model), TextOr(company), TextOr(family), IntOr(mbit), MilliOr(t4k),
             MilliOr(t32k), MilliOr(t64k), MilliOr(tpage), MilliOr(r50)>>, ",")

\* datasheet.csv with the data lines rs
Catalogue(rs) == <<DB_HEADER>> \o rs
Catalogues(S, n) == {Catalogue(rs) : rs \in SeqsUpTo(S, n)}

\* a line of RESULTS.CSV cut to nf fields:
\* jedec_id, operation, block_size, address, elapsed_us, throughput_MBps
Line(nf, op, size, us) ==
  LET f == <<"C2 1F 17", op, ToString(size), "0", ToString(us), "0.0">>
  IN JoinWith(SubSeq(f, 1, nf), ",")


RowMX   == Row("c2 1f 17", "MX25L", "Macronix", "MX25", 8, 45000, 240000, 400000, 700, 5000)
RowSST  == Row("BF2641", "SST26", "Microchip", "SST26", 16, 45000, 150000, ABSENT_F, 700, 4000)
RowAnon == Row("-", "NoId", "", "", -1, 46000, 238000, ABSENT_F, 800, ABSENT_F)
RowFar  == Row("EF4016", "W25Q", "Winbond", "W25", -1, BigF, ABSENT_F, ABSENT_F, ABSENT_F, ABSENT_F)
RowMXb  == Row("C21F17", "", "", "", -1, 48000, 240000, ABSENT_F, ABSENT_F, 5000)

Erase4K   == Line(6, "erase", 4096, 46000)
Erase32K  == Line(6, "erase", 32768, 238000)
Read4K    == Line(6, "read", 4096, 1000)
Prog256   == Line(6, "program", 256, 800)
EraseZero == Line(6, "erase", 4096, 0)
ShortLine == Line(5, "erase", 4096, 46000)

FlashTexts == {"C2 1F 17", "No / Unknown_Flash"}

\* Spec: a card whose files may be missing and whose report file may fail.  A
\* missing file has no content.
Envs ==
  { e \in [db_open_ok : BOOLEAN,
           dbfile : Catalogues({RowMX, RowMXb, RowSST, RowFar}, MaxRows) \cup {<<>>},
           jedec_text : FlashTexts,
           baud_hz : {50000000},
           res_open_ok : BOOLEAN,
           results : SeqsUpTo({Erase4K, Read4K, EraseZero, ShortLine}, MaxSamples),
           rf_open_ok : BOOLEAN, rf_fail_at : {0, 12}] :
      /\ ~e.db_open_ok => e.dbfile = <<>>
      /\ ~e.res_open_ok => e.results = <<>>
      /\ ~e.rf_open_ok => e.rf_fail_at = 0 }

Init == \E e \in Envs : Start(e)
Spec == Init /\ [][Next]_vars

\* SpecMatch: a healthy card; catalogues and results that exercise the matcher
EnvsMatch ==
  [db_open_ok : {TRUE},
   dbfile : Catalogues({RowMX, RowSST, RowAnon, RowMXb}, MaxRows),
   jedec_text : FlashTexts,
   baud_hz : {50000000},
   res_open_ok : {TRUE},
   results : SeqsUpTo({Erase4K, Erase32K, Read4K, Prog256}, MaxSamples),
   rf_open_ok : {TRUE}, rf_fail_at : {0}]

InitMatch == \E e \in EnvsMatch : Start(e)
SpecMatch == InitMatch /\ [][Next]_vars

\* SpecWide: catalogues of n rows that all share the 4 KB erase time, so that the
\* candidate list of that cell has n entries; only the first row has a 32 KB time
WideRow(k) ==
  Row(IF k = 1 THEN "0AB3FF" ELSE "AB" \o Pad2(k) \o "00", "M" \o ToString(k), "Maker", "Fam",
      -1, 45000, IF k = 1 THEN 240000 ELSE ABSENT_F, ABSENT_F, ABSENT_F, ABSENT_F)

EnvsWide ==
  [db_open_ok : {TRUE},
   dbfile : {Catalogue([k \in 1 .. n |-> WideRow(k)]) : n \in WideMin .. WideMax},
   jedec_text : FlashTexts,
   baud_hz : {50000000},
   res_open_ok : {TRUE},
   results : SeqsUpTo({Erase4K, Erase32K}, MaxSamples),
   rf_open_ok : {TRUE}, rf_fail_at : {0}]

InitWide == \E e \in EnvsWide : Start(e)
SpecWide == InitWide /\ [][Next]_vars

\* SpecLate: catalogues of n rows whose 4 KB erase times are all within a
\* thousandth of each other; the last row is the closest to the samples
LateMin == 36
LateMax == 38

LateRow(k, n) ==
  Row("CD" \o Pad2(k) \o "00", "M" \o ToString(k), "Maker", "Fam",
      -1, IF k = n THEN 45010 ELSE 45000, ABSENT_F, ABSENT_F, ABSENT_F, ABSENT_F)

EnvsLate ==
  [db_open_ok : {TRUE},
   dbfile : {Catalogue([k \in 1 .. n |-> LateRow(k, n)]) : n \in LateMin .. LateMax},
   jedec_text : FlashTexts,
   baud_hz : {50000000},
   res_open_ok : {TRUE},
   results : SeqsUpTo({Erase4K, Erase32K}, MaxSamples),
   rf_open_ok : {TRUE}, rf_fail_at : {0}]

InitLate == \E e \in EnvsLate : Start(e)
SpecLate == InitLate /\ [][Next]_vars

\* SpecParse: a healthy card whose RESULTS.CSV holds lines of every shape: the
\* header, well-formed samples, empty fields, text after a number, a missing
\* number, an unknown operation, another delimiter, a carriage return
RESULTS_HEADER == "jedec_id,operation,block_size,address,elapsed_us,throughput_MBps"
NoJedecLine   == ",erase,4096,0,46000,0.0"
NoAddrLine    == "C2 1F 17,erase,4096,,47000,0.0"
NoSizeLine    == "C2 1F 17,erase,,4096,0,48000,0.0"
SizeTextLine  == "C2 1F 17,erase,4096x,0,44000,0.0"
TimeTextLine  == "C2 1F 17,erase,4096,0,45000us,0.0"
NoTimeLine    == "C2 1F 17,erase,4096,0,abc,0.0"
NegTimeLine   == "C2 1F 17,erase,4096,0,-5,0.0"
VerifyLine    == "C2 1F 17,verify,4096,0,46000,0.0"
SemicolonLine == "C2 1F 17;erase;4096;0;46000;0.0"
CrLine        == "C2 1F 17,write,256,0,800,0.0\r"
WholeLine     == Line(6, "read", 1048576, 20000)

RawLines ==
  {Erase4K, Read4K, EraseZero, ShortLine, RESULTS_HEADER, NoJedecLine, NoAddrLine,
   NoSizeLine, SizeTextLine, TimeTextLine, NoTimeLine, NegTimeLine, VerifyLine,
   SemicolonLine, CrLine, WholeLine}

EnvsParse ==
  [db_open_ok : {TRUE},
   dbfile : Catalogues({RowMX}, 1),
   jedec_text : FlashTexts,
   baud_hz : {50000000},
   res_open_ok : {TRUE},
   results : SeqsUpTo(RawLines, MaxSamples),
   rf_open_ok : {TRUE}, rf_fail_at : {0}]

InitParse == \E e \in EnvsParse : Start(e)
SpecParse == InitParse /\ [][Next]_vars

\* SpecStats: a healthy card whose RESULTS.CSV holds up to MaxStats valid
\* 4 KB erase samples of very different durations, the long one at most once
MaxStats == 3
EraseLong == Line(6, "erase", 4096, 1048576000)
EraseTiny == Line(6, "erase", 4096, 50)

EnvsStats ==
  { e \in [db_open_ok : {TRUE},
           dbfile : Catalogues({RowMX}, 1),
           jedec_text : FlashTexts,
           baud_hz : {50000000},
           res_open_ok : {TRUE},
           results : SeqsUpTo({EraseLong, EraseTiny, Erase4K}, MaxStats),
           rf_open_ok : {TRUE}, rf_fail_at : {0}] :
      Cardinality({i \in 1 .. Len(e.results) : e.results[i] = EraseLong}) <= 1 }

InitStats == \E e \in EnvsStats : Start(e)
SpecStats == InitStats /\ [][Next]_vars

\* SpecCat: catalogues as texts.  Headers with commas, with tabs and with
\* fewer columns; data lines with JEDECs in several spellings, with empty and
\* unparseable fields, and with tabs or commas inside a text; blank lines at
\* the top of the file.  The card may reject the writes to the report.
MaxCatRows == 1
MaxBlank == 1
MaxCatSamples == 1

TAB_HEADER ==
  "JEDEC_ID\tCHIP_MODEL\tCOMPANY\tCHIP_FAMILY\tCAPACITY_MBIT\tTYP_4KB_MS\tTYP_32KB_MS\tTYP_64KB_MS\tTYP_PAGE_PROGRAM_MS\t50MHZ_READ_SPEED"
SHORT_HEADER == "jedec,chip_model,company,typ_4kb,typ_32kb"

PrefixedLine  == "0xBF2641,SST26,Microchip,SST26,16,45,150"
SpacedLine    == "bf 26 41,SST26,Microchip,SST26,16,45,150"
LongIdLine    == "BF264100,SST26,Microchip,SST26,16,45,150"
ShortIdLine   == "BF26,SST26,Microchip,SST26,16,45,150"
NoCompanyLine == "C21F17,MX25L,,45,240"
NoNumberLine  == "C21F17,MX25L,Macronix,MX25,8,abc,240"
NoFamilyLine  == "C21F17,MX25L,Macronix,,8,45,240"
TabLine       == "C21F17\tMX25L\tMacronix\tMX25\t8\t45\t240\t400\t0.7\t5"
TabCommaLine  == "C21F17\tMX25L, rev B\tMacronix\tMX25\t8\t45\t240\t400\t0.7\t5"
CommaTabLine  == "C21F17,MX25L\trev B,Macronix,MX25,8,45,240"

CatLines ==
  {RowMX, PrefixedLine, SpacedLine, LongIdLine, ShortIdLine, NoCompanyLine, NoNumberLine,
   NoFamilyLine, TabLine, TabCommaLine, CommaTabLine}

\* n blank lines
Blanks(n) == [i \in 1 .. n |-> IF i % 2 = 1 THEN "" ELSE "  "]

CatFiles ==
  { Blanks(n) \o <<h>> \o rs :
      n \in 0 .. MaxBlank, h \in {DB_HEADER, TAB_HEADER, SHORT_HEADER},
      rs \in SeqsUpTo(CatLines, MaxCatRows) }

EnvsCat ==
  [db_open_ok : {TRUE},
   dbfile : CatFiles,
   jedec_text : FlashTexts,
   baud_hz : {50000000},
   res_open_ok : {TRUE},
   results : SeqsUpTo({Erase4K}, MaxCatSamples),
   rf_open_ok : {TRUE}, rf_fail_at : {0, 12}]

InitCat == \E e \in EnvsCat : Start(e)
SpecCat == InitCat /\ [][Next]_vars

\* SpecSck: a healthy card and a flash whose SPI clock reads as 0 Hz or 50 MHz
MaxSckRows == 2
MaxSckSamples == 2

EnvsSck ==
  [db_open_ok : {TRUE},
   dbfile : Catalogues({RowMX, RowSST, RowAnon}, MaxSckRows),
   jedec_text : FlashTexts,
   baud_hz : {0, 50000000},
   res_open_ok : {TRUE},
   results : SeqsUpTo({Read4K, Erase4K, Prog256}, MaxSckSamples),
   rf_open_ok : {TRUE}, rf_fail_at : {0}]

InitSck == \E e \in EnvsSck : Start(e)
SpecSck == InitSck /\ [][Next]_vars

\* SpecGate: a healthy card, and a build whose gates return 0 or 1
MaxGateSamples == 2

EnvsGate ==
  [db_open_ok : {TRUE},
   dbfile : Catalogues({RowMX}, 1),
   jedec_text : FlashTexts,
   baud_hz : {50000000},
   res_open_ok : {TRUE},
   results : SeqsUpTo({Read4K, Erase4K, Prog256}, MaxGateSamples),
   rf_open_ok : {TRUE}, rf_fail_at : {0},
   gates : [read : {0, 1}, prog : {0, 1}, erase : {0, 1}]]

InitGate == \E e \in EnvsGate : Start(e)
SpecGate == InitGate /\ [][Next]_vars

\* SpecCalc: the statistics primitives on vectors of up to MaxCalcLen samples
\* (in thousandths of a millisecond) and quantiles below, inside and above 0..1
MaxCalcLen == 4
CalcValues == {50, 1000, 46000, 47000}
CalcQuantiles == {-50, 0, 1, 25, 33, 50, 75, 99, 100, 150}

\* nothing on the card, the report generation not running
EnvNone ==
  [db_open_ok |-> FALSE, dbfile |-> <<>>, jedec_text |-> "", baud_hz |-> 0,
   res_open_ok |-> FALSE, results |-> <<>>, rf_open_ok |-> FALSE, rf_fail_at |-> 0]

InitCalc ==
  /\ env = EnvNone /\ pc = "idle" /\ rows = <<>> /\ jedec_norm6 = "" /\ match_idx = 0
  /\ capacity_bytes = 0 /\ A = NoAgg /\ wr = NoLocals
  /\ rf = [opened |-> FALSE, data |-> <<>>, rejected |-> 0]
  /\ console = <<>> /\ ret = "pending" /\ menu = NoMenu
  /\ \E src \in SeqsUpTo(CalcValues, MaxCalcLen), q \in CalcQuantiles :
       calc = [NoCalc EXCEPT !.pc = "stats", !.src = src, !.q = q]

SpecCalc == InitCalc /\ [][NextCalc]_vars

\* SpecEqual: float_almost_equal on pairs of floats (in thousandths): NaN, zero,
\* values within and beyond a thousandth of each other, negatives, 2e9
EqualValues ==
  {NaN, 0, 1, 700, 999, 1000, 1001, 45000, 45044, 45045, 45046, 46000, -45000, -45044, BigF}

InitEqual ==
  /\ env = EnvNone /\ pc = "idle" /\ rows = <<>> /\ jedec_norm6 = "" /\ match_idx = 0
  /\ capacity_bytes = 0 /\ A = NoAgg /\ wr = NoLocals
  /\ rf = [opened |-> FALSE, data |-> <<>>, rejected |-> 0]
  /\ console = <<>> /\ ret = "pending" /\ menu = NoMenu
  /\ \E a \in EqualValues, b \in EqualValues :
       calc = [NoCalc EXCEPT !.pc = "compare", !.a = a, !.b = b]

SpecEqual == InitEqual /\ [][NextEqual]_vars

\* SpecMenu: the analysis menu on a card that is mounted or not, with a
\* catalogue and a results file for the report written on the way out
EnvsMenu ==
  [db_open_ok : {TRUE},
   dbfile : {Catalogue(<<RowMX>>)},
   jedec_text : FlashTexts,
   baud_hz : {50000000},
   res_open_ok : {TRUE},
   results : {<<Read4K, Erase4K>>},
   rf_open_ok : {TRUE}, rf_fail_at : {0},
   sd_mounted : BOOLEAN]

InitMenu ==
  /\ env \in EnvsMenu /\ pc = "idle" /\ rows = <<>> /\ jedec_norm6 = "" /\ match_idx = 0
  /\ capacity_bytes = 0 /\ A = NoAgg /\ wr = NoLocals
  /\ rf = [opened |-> FALSE, data |-> <<>>, rejected |-> 0]
  /\ console = <<>> /\ ret = "pending" /\ calc = NoCalc
  /\ menu = [NoMenu EXCEPT !.pc = "entry"]

SpecMenu == InitMenu /\ [][NextMenu]_vars

----------------------------------------------------------------------------
(* Reading the report back *)

Done == pc = "done"
Complete == Done /\ rf.opened /\ rf.rejected = 0

StartsWith(s, p) == Len(s) >= Len(p) /\ SubSeq(s, 1, Len(p)) = p

HasRow(title) == \E k \in 1 .. Len(rf.data) : StartsWith(rf.data[k], title \o ",")
RowOf(title) == rf.data[CHOOSE k \in 1 .. Len(rf.data) : StartsWith(rf.data[k], title \o ",")]

\* the comma-separated fields of a line from position i, empty fields kept
RECURSIVE split_commas(_, _)
split_commas(s, i) ==
  IF \A k \in i .. Len(s) : Char(s, k) # "," THEN <<SubSeq(s, i, Len(s))>>
  ELSE LET c == CHOOSE k \in i .. Len(s) : Char(s, k) = "," /\ \A m \in i .. (k - 1) : Char(s, m) # ","
       IN <<SubSeq(s, i, c - 1)>> \o split_commas(s, c + 1)

\* the cell of row `title` in column col (1 read, 2 write, 3 erase)
Cell(title, col) == split_commas(RowOf(title), 1)[col + 1]

Ops == {"read", "write", "erase"}
ColOf(op) == CASE op = "read" -> 1 [] op = "write" -> 2 [] op = "erase" -> 3

StatTitles(g) ==
  { "n_" \o group_suffix(g) } \cup
  { k \o "_" \o group_suffix(g) \o "_ms" : k \in {"avg", "p25", "p50", "p75", "min", "max", "stddev"} }

AllStatsNA == \A g \in Groups : \A t \in StatTitles(g) : HasRow(t) /\ RowOf(t) = t \o ",NA,NA,NA"

FinalRow == rf.data[Len(rf.data)]
FinalCells == split_commas(FinalRow, 1)

\* the bucket of operation op and size group g
Bucket(op, g) ==
  CASE op = "read" -> A.read_s[g] [] op = "write" -> A.write_s[g] [] op = "erase" -> A.erase_s[g]

\* whether catalogue row r predicts the cell (op, g), and what it predicts
HasPrediction(op, g, r) ==
  CASE op = "read"  -> Gt0(r.read50_MBps) /\ A.sck_MHz > 0
    [] op = "write" -> Gt0(r.typ_page_ms) /\ group_bytes(g, capacity_bytes) > 0
    [] op = "erase" -> g \in {G_4K, G_32K, G_64K} /\ Gt0(erase_ref(r, g))

Prediction(op, g, r) ==
  CASE op = "read"  -> read_pred(r, A.sck_MHz)
    [] op = "write" -> write_pred(r, g, capacity_bytes)
    [] op = "erase" -> erase_ref(r, g)

Predicting(op, g) == {i \in 1 .. Len(rows) : HasPrediction(op, g, rows[i])}

Distance(op, g, i) == FAbsDiff(Prediction(op, g, rows[i]), Bucket(op, g).mean)

EarliestClosest(op, g) ==
  CHOOSE i \in Predicting(op, g) :
    \A j \in Predicting(op, g) :
      /\ Distance(op, g, i) <= Distance(op, g, j)
      /\ (Distance(op, g, j) = Distance(op, g, i) => i <= j)

DbMeanCell(op, g) == Cell("db_mean_" \o group_suffix(g), ColOf(op))
PossibleCell(op, g) == Cell("possible_chips_" \o group_suffix(g), ColOf(op))
ConclusionCell(op) == Cell("conclusion_possible_chips", ColOf(op))

RECURSIVE JoinSlash(_)
JoinSlash(ts) ==
  IF ts = <<>> THEN ""
  ELSE IF Len(ts) = 1 THEN ts[1]
  ELSE ts[1] \o "/" \o JoinSlash(Tail(ts))

ListOrNA(ts) == IF ts = <<>> THEN NA_STR ELSE JoinSlash(ts)
ListTokens(cell) == IF cell = NA_STR THEN <<>> ELSE Tokens(cell)
TokenSet(cell) == {ListTokens(cell)[k] : k \in 1 .. Len(ListTokens(cell))}

----------------------------------------------------------------------------
(* C1 *)

\* C1: when RESULTS.CSV cannot be opened, the report is still written and every
\* cell (read, write, erase) of every n_, avg_, p25_, p50_, p75_, min_, max_ and
\* stddev_ row of all six size groups is NA.
C1_StatsNAWhenResultsMissing == (Complete /\ ~env.res_open_ok) => AllStatsNA

----------------------------------------------------------------------------
(* C2 *)

\* C2: when report.csv cannot be opened, or the card rejects a write to it, the
\* caller of the report generation receives an error outcome.
C2_WriteFailureSurfaced == (Done /\ (~rf.opened \/ rf.rejected > 0)) => ret = "error"

----------------------------------------------------------------------------
(* C3 *)

\* C3: in every cell whose bucket has samples, db_mean is the prediction of the
\* earliest catalogue row among the rows closest to the bucket mean, taken over
\* the rows that have a prediction; the erase cells of 1B, 256B and WHOLE are NA.
C3_DbMeanIsEarliestClosest ==
  Complete =>
    \A op \in Ops : \A g \in Groups :
      /\ (Bucket(op, g).n > 0 /\ Predicting(op, g) # {})
           => DbMeanCell(op, g) = f3_or_na(Prediction(op, g, rows[EarliestClosest(op, g)]))
      /\ (op = "erase" /\ g \in {G_1B, G_256B, G_WHOLE}) => DbMeanCell(op, g) = NA_STR

----------------------------------------------------------------------------
(* C4 *)

\* C4: in every cell whose bucket has samples and for which some catalogue row
\* has a prediction, db_mean is not NA and is the prediction of one of the rows.
C4_DbMeanPresent ==
  Complete =>
    \A op \in Ops : \A g \in Groups :
      (Bucket(op, g).n > 0 /\ Predicting(op, g) # {})
        => /\ DbMeanCell(op, g) # NA_STR
           /\ \E i \in Predicting(op, g) :
                DbMeanCell(op, g) = f3_or_na(Prediction(op, g, rows[i]))

----------------------------------------------------------------------------
(* C5 *)

\* the JEDECs, in catalogue order, of the rows with a JEDEC whose prediction
\* for the cell is almost equal to the db_mean of the cell
MatchingJedecs(op, g) ==
  MapSeq(SelectSeq(rows, LAMBDA r : r.jedec_norm # "" /\ HasPrediction(op, g, r)
                                    /\ float_almost_equal(Prediction(op, g, r), wr.db[op][g])),
         LAMBDA r : r.jedec_norm)

\* C5: in every cell with a db_mean, possible_chips lists, in catalogue order,
\* exactly the JEDECs of the rows with a JEDEC whose prediction is almost equal
\* to db_mean (NA when there is none).
C5_PossibleChipsExact ==
  Complete =>
    \A op \in Ops : \A g \in Groups :
      DbMeanCell(op, g) # NA_STR => PossibleCell(op, g) = ListOrNA(MatchingJedecs(op, g))

----------------------------------------------------------------------------
(* C6 *)

\* C6: for each operation, every entry of the conclusion_possible_chips cell is
\* an entry of the possible_chips cell of every size group whose cell is not NA.
C6_ConclusionWithinEveryList ==
  Complete =>
    \A op \in Ops : \A g \in Groups :
      PossibleCell(op, g) # NA_STR
        => TokenSet(ConclusionCell(op)) \subseteq TokenSet(PossibleCell(op, g))

----------------------------------------------------------------------------
(* C7 *)

Listed(op) == {g \in Groups : PossibleCell(op, g) # NA_STR /\ PossibleCell(op, g) # ""}
Seed(op) == CHOOSE g \in Listed(op) : \A h \in Listed(op) : g <= h
Kept(op) ==
  SelectSeq(ListTokens(PossibleCell(op, Seed(op))),
            LAMBDA t : \A g \in Listed(op) \ {Seed(op)} : t \in TokenSet(PossibleCell(op, g)))

\* C7: the conclusion of an operation keeps the entries of the first listed size
\* group that are members of every other listed group, in seed order and
\* separated by '/'; it is NA when no group is listed or nothing is kept.
C7_ConclusionIsIntersection ==
  Complete =>
    \A op \in Ops :
      ConclusionCell(op) = IF Listed(op) = {} THEN NA_STR ELSE ListOrNA(Kept(op))

----------------------------------------------------------------------------
(* C8 *)

\* min(|mean - pred| / pred, 3.0) in thousandths
Penalty(op, g, r) ==
  LET diff == FAbsDiff(Bucket(op, g).mean, Prediction(op, g, r))
      pred == Prediction(op, g, r)
  IN IF pred = BigF THEN 1000
     ELSE IF diff >= 3 * pred THEN 3000
     ELSE (1000 * diff) \div pred

Contributes(op, g, r) == Bucket(op, g).n > 0 /\ HasPrediction(op, g, r)
Eligible == {i \in 1 .. Len(rows) : \E op \in Ops : \E g \in Groups : Contributes(op, g, rows[i])}

Term(op, g, r) == IF Contributes(op, g, r) THEN Penalty(op, g, r) ELSE 0
RawScore(i) ==
  LET r == rows[i]
      S(op) == Term(op, 0, r) + Term(op, 1, r) + Term(op, 2, r)
               + Term(op, 3, r) + Term(op, 4, r) + Term(op, 5, r)
  IN S("read") + S("write") + S("erase")

JedecMatches(i) == jedec_norm6 # "" /\ rows[i].jedec_norm = jedec_norm6

\* four times the score of row i: the raw score, or four times it without the bias
Score4(i) == IF JedecMatches(i) THEN RawScore(i) ELSE 4 * RawScore(i)

\* C8: the final scorer selects the earliest row of minimum score among the
\* eligible rows, where the score is the sum of the capped penalties of the
\* contributing buckets, multiplied by 0.25 when the row carries the JEDEC of the
\* flash; with no eligible row it selects none and the score is absent.
C8_ScorerPicksEarliestMinimum ==
  Done =>
    IF Eligible = {} THEN wr.best.best = 0 /\ IsNaN(wr.best.score)
    ELSE /\ wr.best.best \in Eligible
         /\ \A j \in Eligible :
              /\ Score4(wr.best.best) <= Score4(j)
              /\ (Score4(j) = Score4(wr.best.best) => wr.best.best <= j)
         /\ wr.best.score = Score4(wr.best.best) \div 4

\* the JEDEC bias decides: the selected row has a worse raw score than another
\* eligible row
C8_Witness ==
  /\ Done
  /\ wr.best.best \in Eligible
  /\ \E j \in Eligible : RawScore(j) < RawScore(wr.best.best)

----------------------------------------------------------------------------
(* C9 *)

NoSamples == ~any_meas_of(A)
JedecInCatalogue == \E i \in 1 .. Len(rows) : rows[i].jedec_norm = jedec_norm6

----------------------------------------------------------------------------
(* C10 *)

FirstOfJedec == CHOOSE i \in 1 .. Len(rows) :
                  /\ rows[i].jedec_norm = jedec_norm6
                  /\ \A j \in 1 .. (i - 1) : rows[j].jedec_norm # jedec_norm6

\* C10: with no sample in any bucket, a known JEDEC and a catalogue row of that
\* JEDEC, the final row is <jedec>,<model>,<company>,0.000 of the first such row
\* and every cell of every statistics row is NA.
C10_JedecMatchedFinalRow ==
  (Complete /\ NoSamples /\ jedec_norm6 # "" /\ JedecInCatalogue)
    => /\ FinalRow = jedec_norm6 \o "," \o rows[FirstOfJedec].chip_model \o ","
                       \o rows[FirstOfJedec].company \o ",0.000"
       /\ AllStatsNA

----------------------------------------------------------------------------
(* C11 *)

\* C11: when the JEDEC of the flash is unknown and no catalogue row can be
\* scored, the final row is exactly undecided,undecided,undecided,NA; and when
\* RESULTS.CSV is empty every cell of every statistics row is NA.
C11_UndecidedFinalRow ==
  /\ (Complete /\ jedec_norm6 = "" /\ Eligible = {})
       => FinalRow = "undecided,undecided,undecided,NA"
  /\ (Complete /\ env.res_open_ok /\ env.results = <<>>) => AllStatsNA

\* the empty results stream with the empty catalogue, JEDEC unknown
C11_Witness ==
  Complete /\ jedec_norm6 = "" /\ env.res_open_ok /\ env.results = <<>> /\ rows = <<>>

----------------------------------------------------------------------------
(* C12 *)

Collected == pc \in {"write", "done"} /\ env.res_open_ok

\* the comma-separated fields of a results line, numbered from 0
Field(text, k) == split_commas(text, 1)[k + 1]
NumFields(text) == Len(split_commas(text, 1))

OpsOf(op) == IF op = "write" THEN {"program", "write"} ELSE {op}

\* the line counts for the bucket (op, g): at least six fields, a size of
\* group g, the operation, elapsed_us > 0
CountsFor(text, op, g) ==
  /\ NumFields(text) >= 6
  /\ classify_group(parse_int_or(Field(text, 2), 0), capacity_bytes) = g
  /\ Field(text, 1) \in OpsOf(op)
  /\ parse_float_or(Field(text, 4), -1, 1) > 0

\* n of the bucket (op, g) in aggregates a
SamplesOf(a, op, g) ==
  CASE op = "read" -> a.read_lat_ms[g].n [] op = "write" -> a.write_s[g].n
    [] op = "erase" -> a.erase_s[g].n

\* C12: after any prefix of the results stream, n of every bucket is the
\* number of processed lines that count for it (at least six fields, a size
\* of the group, the operation, elapsed_us > 0); every line counts for at most
\* one bucket, and a line with elapsed_us <= 0 for none.
C12_OneSamplePerCountedLine ==
  Collected =>
    \A k \in 0 .. Len(env.results) :
      LET a == collect_aggregates(TRUE, SubSeq(env.results, 1, k), capacity_bytes, env.baud_hz)
      IN \A op \in Ops, g \in Groups :
           SamplesOf(a, op, g) = Cardinality({i \in 1 .. k : CountsFor(env.results[i], op, g)})

----------------------------------------------------------------------------
(* C13 *)

IsNumber(t) == t # "" /\ \A k \in 1 .. Len(t) : IsDigit(Char(t, k))

IsDecimal(t) ==
  \/ IsNumber(t)
  \/ \E k \in 2 .. (Len(t) - 1) :
       Char(t, k) = "." /\ IsNumber(SubSeq(t, 1, k - 1)) /\ IsNumber(SubSeq(t, k + 1, Len(t)))

\* a malformed results line: fewer than six fields (a truncated line, another
\* delimiter), a size or an elapsed time that is no number, an elapsed time
\* that is not positive, an operation that is not measured (the header too)
Malformed(text) ==
  \/ NumFields(text) < 6
  \/ ~IsNumber(Field(text, 2))
  \/ ~IsDecimal(Field(text, 4))
  \/ parse_float_or(Field(text, 4), -1, 1) <= 0
  \/ Field(text, 1) \notin {"read", "program", "write", "erase"}

\* C13: the aggregates of a results stream are those of the same stream with
\* its malformed lines removed in advance.
C13_MalformedLinesIgnored ==
  Collected =>
    A = collect_aggregates(TRUE, SelectSeq(env.results, LAMBDA t : ~Malformed(t)),
                           capacity_bytes, env.baud_hz)

----------------------------------------------------------------------------
(* C14 *)

\* the lines that agree with text on fields 1, 2 and 4 and differ from it in
\* field 0, 3 or 5, each of which may be empty
Variants(text) ==
  LET f == split_commas(text, 1)
  IN { JoinWith([f EXCEPT ![1] = a, ![4] = b, ![6] = c], ",") :
         a \in {"", f[1]}, b \in {"", f[4]}, c \in {"", f[6]} }

\* the streams that agree with the results stream line by line on fields 1, 2, 4
VariantStreams ==
  { s \in [1 .. Len(env.results) -> UNION {Variants(t) : t \in Range(env.results)}] :
      \A i \in 1 .. Len(env.results) : s[i] \in Variants(env.results[i]) }

\* C14: two results streams whose lines have at least six comma-separated
\* fields and agree line by line on fields 1, 2 and 4 yield the same
\* aggregates, whatever fields 0, 3 and 5 hold.
C14_OnlyOpSizeElapsedRead ==
  (Collected /\ \A i \in 1 .. Len(env.results) : NumFields(env.results[i]) >= 6) =>
    \A s \in VariantStreams :
      collect_aggregates(TRUE, s, capacity_bytes, env.baud_hz) = A

----------------------------------------------------------------------------
(* C15 *)

\* the streams that hold the lines of s in another order
Reorderings(s) ==
  { [i \in 1 .. Len(s) |-> s[p[i]]] :
      p \in { q \in [1 .. Len(s) -> 1 .. Len(s)] : \A i, j \in 1 .. Len(s) : q[i] = q[j] => i = j } }

\* C15: for a valid results stream, every permutation of its lines gives each
\* bucket the same n, mean, p25, p50, p75, min, max and stddev.
C15_OrderInsensitive ==
  Collected =>
    \A s \in Reorderings(env.results) :
      LET a == collect_aggregates(TRUE, s, capacity_bytes, env.baud_hz)
      IN /\ a.read_s = A.read_s /\ a.write_s = A.write_s
         /\ a.erase_s = A.erase_s /\ a.read_lat_ms = A.read_lat_ms

----------------------------------------------------------------------------
(* C16 *)

Loaded == pc # "load"

\* the lines after the first that make rows, in order, and their fields
DataLines == SelectSeq(Tail(env.dbfile), LAMBDA line : Len(db_fields(line)) > 1)

\* the text of data line number i in the column that the first line maps for k
HasField(i, k) ==
  LET at == header_idx(env.dbfile[1])[k] IN at >= 0 /\ at < Len(db_fields(DataLines[i]))
FieldOf(i, k) == db_fields(DataLines[i])[header_idx(env.dbfile[1])[k] + 1]

\* the text without a leading 0x or 0X
WithoutPrefix(t) ==
  IF Len(t) >= 2 /\ SubSeq(t, 1, 2) \in {"0x", "0X"} THEN SubSeq(t, 3, Len(t)) ELSE t

\* the hex digits of the text, in upper case
RECURSIVE HexDigits(_)
HexDigits(t) ==
  IF t = "" THEN ""
  ELSE (IF IsXDigit(Char(t, 1)) THEN ToUpper(Char(t, 1)) ELSE "") \o HexDigits(SubSeq(t, 2, Len(t)))

\* the six hex digits that remain, or the empty text when their number is not six
SixDigits(t) == LET h == HexDigits(WithoutPrefix(t)) IN IF Len(h) = 6 THEN h ELSE ""

\* C16: the normalised JEDEC of a catalogue row and of the flash is the upper
\* case text of the hex digits left after removing a leading 0x/0X and every
\* other character when exactly six are left, and empty when fewer or more are.
C16_JedecNormalised ==
  /\ Loaded =>
       \A i \in 1 .. Len(rows) :
         HasField(i, "jedec") => rows[i].jedec_norm = SixDigits(trim(FieldOf(i, "jedec")))
  /\ pc \notin {"load", "detect"} => jedec_norm6 = SixDigits(env.jedec_text)

----------------------------------------------------------------------------
(* C17 *)

\* the fields of a text between separators sep, from position i, empty ones kept
RECURSIVE split_keep(_, _, _)
split_keep(s, sep, i) ==
  IF \A k \in i .. Len(s) : Char(s, k) # sep THEN <<SubSeq(s, i, Len(s))>>
  ELSE LET c == CHOOSE k \in i .. Len(s) : Char(s, k) = sep /\ \A m \in i .. (k - 1) : Char(s, m) # sep
       IN <<SubSeq(s, i, c - 1)>> \o split_keep(s, sep, c + 1)

\* the fields of a catalogue line by position, and the field at the position
\* of the header token of column k ("" when the line ends before it)
PositionalFields(line) ==
  LET t == trim(line) IN split_keep(t, IF HasComma(t) THEN "," ELSE "\t", 1)

OwnField(i, k) ==
  LET at == header_idx(env.dbfile[1])[k]
      f == PositionalFields(DataLines[i])
  IN IF at >= 0 /\ at < Len(f) THEN f[at + 1] ELSE ""

\* C17: every column of every catalogue row holds the value of the field at
\* the position of its own header token, absent (-1, or the empty text) when
\* that field is empty or no number, whatever the other fields of the row hold.
C17_FieldAbsentForOwnColumnOnly ==
  Loaded =>
    \A i \in 1 .. Len(rows) :
      /\ rows[i].jedec_norm = normalize_jedec(trim(OwnField(i, "jedec")))
      /\ rows[i].chip_model = trim(OwnField(i, "model"))
      /\ rows[i].company = trim(OwnField(i, "company"))
      /\ rows[i].family = trim(OwnField(i, "family"))
      /\ rows[i].capacity_mbit = parse_int_or(OwnField(i, "capacity"), -1)
      /\ rows[i].typ_4k_ms = parse_float_or(OwnField(i, "typ4k"), ABSENT_F, 1000)
      /\ rows[i].typ_32k_ms = parse_float_or(OwnField(i, "typ32k"), ABSENT_F, 1000)
      /\ rows[i].typ_64k_ms = parse_float_or(OwnField(i, "typ64k"), ABSENT_F, 1000)
      /\ rows[i].typ_page_ms = parse_float_or(OwnField(i, "typprog"), ABSENT_F, 1000)
      /\ rows[i].read50_MBps = parse_float_or(OwnField(i, "read50"), ABSENT_F, 1000)

----------------------------------------------------------------------------
(* C18 *)

\* the file from its first line that is not blank
RECURSIVE FromHeader(_)
FromHeader(file) ==
  IF file = <<>> \/ trim(Head(file)) # "" THEN file ELSE FromHeader(Tail(file))

\* C18: the table loaded from a catalogue is the table loaded from the same
\* catalogue without the blank lines before its header.
C18_LeadingBlankLinesSkipped ==
  Loaded => rows = load_database(env.db_open_ok, FromHeader(env.dbfile), MAX_DB_ROWS)

----------------------------------------------------------------------------
(* C19 *)

\* the positions of the lines of the report that equal text
LinesEqual(text) == {k \in 1 .. Len(rf.data) : rf.data[k] = text}

\* the first line is the header line, and the only final-guess header is the
\* last line but one, followed by one row of four values
OneFinalBlockLast ==
  /\ Len(rf.data) >= 3
  /\ rf.data[1] = "title,read,write,erase"
  /\ LinesEqual("final_guess_jedec,final_guess_model,final_guess_company,final_score")
       = {Len(rf.data) - 1}
  /\ Len(FinalCells) = 4
  /\ \A k \in 1 .. (Len(rf.data) - 2) : ~StartsWith(rf.data[k], "final_")

----------------------------------------------------------------------------
(* C20 *)

\* C20: every row of the report that is not blank has exactly four
\* comma-separated fields, whatever the catalogue (separated by commas or by
\* tabs, with any text in model, company and family) and the results hold.
C20_FourFieldsPerRow ==
  \A k \in 1 .. Len(rf.data) : rf.data[k] # "" => Len(split_commas(rf.data[k], 1)) = 4

HasTab(t) == \E k \in 1 .. Len(t) : Char(t, k) = "\t"

\* a full report for a flash that matches the row of a tab-separated
\* catalogue line with a comma inside its model text
C20_Witness ==
  /\ Complete /\ match_idx > 0
  /\ env.dbfile[1] = TAB_HEADER
  /\ \E k \in 2 .. Len(env.dbfile) : HasTab(env.dbfile[k]) /\ HasComma(env.dbfile[k])
  /\ HasTab(rows[match_idx].chip_model)

----------------------------------------------------------------------------
(* C21 *)

\* the first field of a report line
TitleOf(line) == split_commas(line, 1)[1]

\* the titles of the rows of a report in the order of the list; the blank
\* line has the empty title, and the value row of the final guess has none
GroupTitles(g) ==
  << "n_" \o group_suffix(g) >> \o
  [k \in 1 .. 7 |-> <<"avg", "p25", "p50", "p75", "min", "max", "stddev">>[k]
                      \o "_" \o group_suffix(g) \o "_ms"]

SizeOrder == <<G_1B, G_256B, G_4K, G_32K, G_64K, G_WHOLE>>

ListedTitles ==
  << "title", "detected_jedec", "chip_model", "chip_family", "company", "capacity_mbit",
     "capacity_bytes", "spi_sck_MHz", "units_summary" >>
  \o GroupTitles(SizeOrder[1]) \o GroupTitles(SizeOrder[2]) \o GroupTitles(SizeOrder[3])
  \o GroupTitles(SizeOrder[4]) \o GroupTitles(SizeOrder[5]) \o GroupTitles(SizeOrder[6])
  \o [k \in 1 .. 6 |-> "db_mean_" \o group_suffix(SizeOrder[k])]
  \o [k \in 1 .. 6 |-> "possible_chips_" \o group_suffix(SizeOrder[k])]
  \o << "conclusion_possible_chips", "notes", "", "final_guess_jedec" >>

----------------------------------------------------------------------------
(* C22 *)

\* the buckets of the write and erase sections that contribute to row i
WriteEraseCells(i) ==
  {c \in {"write", "erase"} \X Groups : Contributes(c[1], c[2], rows[i])}

RECURSIVE SumOver(_, _)
SumOver(S, F) ==
  IF S = {} THEN 0 ELSE LET x == CHOOSE y \in S : TRUE IN F[x] + SumOver(S \ {x}, F)

\* four times the score of row i taken over its write and erase buckets only
WriteEraseScore4(i) ==
  LET raw == SumOver(WriteEraseCells(i),
                     [c \in WriteEraseCells(i) |-> Penalty(c[1], c[2], rows[i])])
  IN IF JedecMatches(i) THEN raw ELSE 4 * raw

ScoredWithoutRead == {i \in 1 .. Len(rows) : WriteEraseCells(i) # {}}

\* C22: when the SPI clock is 0, the read cell of every db_mean_ row is NA,
\* whatever the catalogue and the results hold, and the final scorer counts
\* write and erase buckets only: the rows it can select, the number of buckets
\* it used and the score are those of the write and erase sections alone.
C22_NoReadAtZeroClock ==
  (Done /\ A.sck_MHz = 0) =>
    /\ \A g \in Groups : IsNaN(wr.db.read[g]) /\ DbMeanCell("read", g) = NA_STR
    /\ IF ScoredWithoutRead = {} THEN wr.best.best = 0 /\ IsNaN(wr.best.score)
       ELSE /\ wr.best.best \in ScoredWithoutRead
            /\ wr.best.used = Cardinality(WriteEraseCells(wr.best.best))
            /\ wr.best.score = WriteEraseScore4(wr.best.best) \div 4
            /\ \A j \in ScoredWithoutRead : WriteEraseScore4(wr.best.best) <= WriteEraseScore4(j)

\* clock 0 with read samples, a row with a read speed and a row selected
C22_Witness ==
  /\ Done /\ A.sck_MHz = 0 /\ env.baud_hz = 0
  /\ A.read_s[G_4K].n > 0
  /\ wr.best.best > 0 /\ Gt0(rows[wr.best.best].read50_MBps)

----------------------------------------------------------------------------
(* C23 *)

WholeTitles == StatTitles(G_WHOLE) \cup {"db_mean_WHOLE", "possible_chips_WHOLE"}

\* C23: when capacity_bytes is 0 (no catalogue row carries the JEDEC of the
\* flash, or the row that does has no capacity), the cells of n_WHOLE, of the
\* seven _WHOLE_ms statistics rows, of db_mean_WHOLE and of
\* possible_chips_WHOLE are NA in all three columns.
C23_WholeCellsNAWithoutCapacity ==
  (Complete /\ capacity_bytes = 0) =>
    \A t \in WholeTitles : HasRow(t) /\ RowOf(t) = t \o ",NA,NA,NA"

----------------------------------------------------------------------------
(* C24 *)

\* q * (n - 1) in hundredths of an index, for the sorted vector of the call
Pos100 == calc.q * (Len(calc.sorted) - 1)
LowerIndex == Pos100 \div 100
UpperIndex == IF Pos100 % 100 = 0 THEN LowerIndex ELSE LowerIndex + 1
Weight100 == Pos100 % 100

----------------------------------------------------------------------------
(* C25 *)

\* C25: almost_equal(a, a) is true for every finite a, almost_equal(a, b) =
\* almost_equal(b, a) for all a and b, and almost_equal is false whenever an
\* operand is NaN.
C25_AlmostEqualReflexiveSymmetric ==
  calc.pc = "compared" =>
    /\ ~IsNaN(calc.a) => calc.eq.aa
    /\ calc.eq.ab = calc.eq.ba
    /\ (IsNaN(calc.a) \/ IsNaN(calc.b)) => ~calc.eq.ab /\ ~calc.eq.ba

\* two different finite values that the tolerance makes equal
C25_Witness ==
  /\ calc.pc = "compared" /\ ~IsNaN(calc.a) /\ ~IsNaN(calc.b)
  /\ calc.a # calc.b /\ calc.eq.ab /\ calc.eq.ba

----------------------------------------------------------------------------
(* C26 *)

\* what the gate of a section returns
GateOf(op) ==
  CASE op = "read" -> report_enable_read [] op = "write" -> report_enable_prog
    [] op = "erase" -> report_enable_erase

\* the rows of the report that hold a section's measurements and matches
SectionTitles ==
  UNION {StatTitles(g) \cup {"db_mean_" \o group_suffix(g), "possible_chips_" \o group_suffix(g)}
           : g \in Groups} \cup {"conclusion_possible_chips"}

\* the section of op is skipped: no row holds anything in its column
SectionSkipped(op) == \A t \in SectionTitles : Cell(t, ColOf(op)) = NA_STR

\* the section of op is included: its column holds the counts of its buckets
SectionIncluded(op) ==
  \A g \in Groups : Cell("n_" \o group_suffix(g), ColOf(op)) = i_or_na(SamplesOf(A, op, g))

\* C26: the gates control the report: a section (read, write, erase) whose
\* gate returns 0 is skipped, and a section whose gate returns 1 is included.
C26_GatesControlSections ==
  Complete =>
    \A op \in Ops : IF GateOf(op) = 0 THEN SectionSkipped(op) ELSE SectionIncluded(op)

----------------------------------------------------------------------------
(* C27 *)

InMenu ==
  menu.pc \in {"prompt", "safe_exit", "action", "erase_next", "write_next", "destructive_exit"}

CallsOf(call) == {k \in 1 .. Len(menu.calls) : menu.calls[k] = call}

\* C27: once the menu loop has been entered, report_generate_csv has not been
\* called while the menu is at one of its prompts, and when the menu leaves
\* (exit, quit or q; yes to "Do you want to exit?"; a declined second
\* destructive step) report_generate_csv is its last call, made exactly once,
\* and has run to its end when the menu has returned.
C27_ReportExactlyOnceOnExit ==
  menu.entered =>
    /\ InMenu => CallsOf("report_generate_csv") = {}
    /\ menu.pc \in {"report", "returned"} => CallsOf("report_generate_csv") = {Len(menu.calls)}
    /\ menu.pc = "returned" => pc = "done"
    /\ pc # "idle" => menu.pc \in {"report", "returned"}

\* the menu has returned by the automatic exit, after a safe analysis whose
\* exit question was declined
C27_Witness ==
  /\ menu.entered /\ menu.pc = "returned" /\ Complete
  /\ menu.calls = <<"bench_read_run_100", "bench_read_run_100", "bench_write_run_100",
                    "report_generate_csv">>

----------------------------------------------------------------------------
(* C28 *)

ModifyingOps ==
  {"flash_page_program", "flash_sector_erase", "flash_block32_erase", "flash_block64_erase",
   "flash_chip_erase", "flash_erase_span", "flash_unprotect_all"}

\* C28: from the selection of safe until the prompt is shown again or the
\* menu returns, the menu calls only the read benchmark and, on the way out,
\* report_generate_csv; none of its calls invokes a page program or an erase
\* of the flash, and the write and erase benchmarks are not called.
C28_SafeNeverModifiesFlash ==
  menu.cmd = "safe" =>
    /\ menu.round \in {<<"bench_read_run_100">>, <<"bench_read_run_100", "report_generate_csv">>}
    /\ (Len(menu.round) = 2) = (menu.pc \in {"report", "returned"})
    /\ menu.flash \cap ModifyingOps = {}

\* a safe analysis left with yes, after a destructive round that came back to the prompt
C28_Witness ==
  /\ menu.cmd = "safe" /\ menu.pc = "returned"
  /\ \E k \in 1 .. Len(menu.calls) : menu.calls[k] = "bench_erase_run_100"

----------------------------------------------------------------------------
(* C29 *)

\* C29: in every cell whose db_mean is not NA and whose closest catalogue row
\* has a JEDEC, possible_chips is not NA and has the JEDEC of that row among
\* its entries.
C29_WinnerIsListed ==
  Complete =>
    \A op \in Ops : \A g \in Groups :
      (DbMeanCell(op, g) # NA_STR /\ rows[EarliestClosest(op, g)].jedec_norm # "")
        => /\ PossibleCell(op, g) # NA_STR
           /\ rows[EarliestClosest(op, g)].jedec_norm \in TokenSet(PossibleCell(op, g))

----------------------------------------------------------------------------
(* C30 *)

CatalogueJedecs == {rows[i].jedec_norm : i \in 1 .. Len(rows)} \ {""}
ListCells ==
  {PossibleCell(op, g) : op \in Ops, g \in Groups} \cup {ConclusionCell(op) : op \in Ops}

\* C30: every entry of every possible_chips cell and of every
\* conclusion_possible_chips cell is the complete six-character JEDEC of a
\* catalogue row; no entry is cut short, empty or two JEDECs run together.
C30_EveryTokenIsACatalogueJedec ==
  Complete =>
    \A cell \in ListCells :
      \A k \in 1 .. Len(ListTokens(cell)) :
        /\ Len(ListTokens(cell)[k]) = 6
        /\ ListTokens(cell)[k] \in CatalogueJedecs

====
